---- MODULE Spec2Model ----
(***************************************************************************)
(* The interactive spatial editor of SHS-Z2M-Presence-Zones: the           *)
(* DrawingManager gesture state machine (src/src/drawingManager.js), the   *)
(* RadarCanvas coordinate mapping it uses, and the host commands of the    *)
(* page script that drive it.                                              *)
(*                                                                         *)
(* Lengths are millimetres, canvas positions are pixels, both integers.    *)
(* A point is a pair <<x, y>>; the JavaScript null point is <<>>; a null   *)
(* index is NullIndex.  Zone, furniture, entrance and edge indices are the *)
(* 0-based indices of the JavaScript arrays.                               *)
(***************************************************************************)
EXTENDS Integers, Sequences, FiniteSets, TLC

(***************************************************************************)
(* Bounds of the model.                                                    *)
(***************************************************************************)
MaxSteps == 4
MaxGestureSteps == 6
MaxResizeSteps == 8
MaxCoordSteps == 5
MaxSnapSteps == 5
MaxHandleSteps == 6
MaxScaleSteps == 5
MaxBoundsSteps == 5
MaxSelectSteps == 6
MaxFrameSteps == 5
MaxDragSteps == 5
MaxTargetSteps == 4
MaxRotateSteps == 9
MaxPolygonSteps == 5
MaxMovingSteps == 5
MaxCornerSteps == 6
MaxZoneSteps == 6
MaxTypeSteps == 8
MaxFurniture == 2
MaxEntrances == 2
MaxEdges == 2
MaxVertices == 4

(***************************************************************************)
(* Program constants.                                                      *)
(***************************************************************************)
X_MIN == -3000
X_MAX == 3000
Y_MIN == 0
Y_MAX == 6000
CanvasSize == 600
ZoneSlots == 5
SlotScanLimit == 3
ZoneGrid == 100
AnnotationGrid == 50
MinZoneSize == 200
MinEdgeSize == 100
PolygonCloseDist == 300
EntranceHitRadius == 300
handleSize == 10
furnitureHandleSize == 9
MIN_SIZE == 200
MAX_SIZE == 4000
DefaultEntranceWidth == 800
RotateStep == 45

NullIndex == -1
NoPoint == <<>>
NoHandle == [type |-> "null", updateX |-> "", updateY |-> "", itemType |-> "", index |-> NullIndex]

(***************************************************************************)
(* Arithmetic of the JavaScript expressions.                               *)
(***************************************************************************)
Min(a, b) == IF a <= b THEN a ELSE b
Max(a, b) == IF a >= b THEN a ELSE b
Abs(a) == IF a < 0 THEN -a ELSE a

\* A faulty variant of Snap that always advances to the next grid line.
SnapUp(v, g) == (v \div g + 1) * g

\* Math.round(v / g) * g : Math.round rounds halves towards +infinity.
Snap(v, g) == ((2 * v + g) \div (2 * g)) * g

\* Math.round(h / 2 / g) * g for a value given as its double h (exact for
\* values with a fractional half).
SnapHalf(h, g) == ((h + g) \div (2 * g)) * g

RECURSIVE MinOf(_)
MinOf(s) == IF Len(s) = 1 THEN s[1] ELSE Min(s[1], MinOf(Tail(s)))
RECURSIVE MaxOf(_)
MaxOf(s) == IF Len(s) = 1 THEN s[1] ELSE Max(s[1], MaxOf(Tail(s)))

\* array.splice(i, 1) on a 0-based index: nothing is removed when i is
\* past the end.
Splice(s, i) == IF i >= 0 /\ i < Len(s)
                THEN [k \in 1..(Len(s) - 1) |-> IF k <= i THEN s[k] ELSE s[k + 1]]
                ELSE s

\* array[i] on a 0-based index; Defined(s, i) is false where JavaScript
\* yields undefined.
Defined(s, i) == i >= 0 /\ i < Len(s)
At(s, i) == s[i + 1]

(***************************************************************************)
(* RadarCanvas: the linear pixel mapping.  The canvas is a square of       *)
(* CanvasSize pixels, the origin of sensor space is at the bottom centre.  *)
(***************************************************************************)
MmPerPx == (X_MAX - X_MIN) \div CanvasSize
centerX == CanvasSize \div 2
centerY == CanvasSize

toSensorX(canvasX) == (canvasX - centerX) * MmPerPx
toSensorY(canvasY) == (centerY - canvasY) * MmPerPx

\* Canvas positions of sensor points are kept in units of 1/MmPerPx pixel
\* (one unit per millimetre) so that they stay integers.
toCanvasXmm(x) == centerX * MmPerPx + x
toCanvasYmm(y) == centerY * MmPerPx - y

Cos90(r) == CASE r = 0 -> 1 [] r = 90 -> 0 [] r = 180 -> -1 [] r = 270 -> 0
Sin90(r) == CASE r = 0 -> 0 [] r = 90 -> 1 [] r = 180 -> 0 [] r = 270 -> -1

\* DrawingManager.toSensorCoords: undo the view rotation about the canvas
\* centre (angle -rotation), then map pixels to millimetres.
toSensorCoords(c, rotation) ==
    LET cx == CanvasSize \div 2
        cy == CanvasSize \div 2
        dx == c[1] - cx
        dy == c[2] - cy
        cos == Cos90(rotation)
        sin == -Sin90(rotation)
        unrotatedX == cx + dx * cos - dy * sin
        unrotatedY == cy + dx * sin + dy * cos
    IN <<toSensorX(unrotatedX), toSensorY(unrotatedY)>>

\* DrawingManager.toCanvasCoords for a sensor point given as k times its
\* millimetre coordinates; the result is in units of 1/(k * MmPerPx) pixel.
toCanvasScaled(p, rotation, k) ==
    LET unrotatedX == k * centerX * MmPerPx + p[1]
        unrotatedY == k * centerY * MmPerPx - p[2]
        cx == k * (CanvasSize \div 2) * MmPerPx
        cy == k * (CanvasSize \div 2) * MmPerPx
        cos == Cos90(rotation)
        sin == Sin90(rotation)
        dx == unrotatedX - cx
        dy == unrotatedY - cy
    IN <<cx + dx * cos - dy * sin, cy + dx * sin + dy * cos>>

\* DrawingManager.toCanvasCoords, in units of 1/MmPerPx pixel.
toCanvasCoords(p, rotation) == toCanvasScaled(p, rotation, 1)

\* RadarCanvas.transformSensorToRoom: the explicit remap of a live target's
\* sensor point for each map rotation.
transformSensorToRoom(p, rotation) ==
    CASE rotation = 0 -> p
      [] rotation = 90 -> <<p[2] - 3000, p[1] + 3000>>
      [] rotation = 180 -> <<p[1], Y_MAX - p[2]>>
      [] rotation = 270 -> <<-(p[2] - 3000), -p[1] + 3000>>
      [] OTHER -> p

\* RadarCanvas.drawTarget: the position of the target circle, in units of
\* 1/MmPerPx pixel.
TargetPosition(p, rotation) ==
    LET transformed == transformSensorToRoom(p, rotation)
    IN <<toCanvasXmm(transformed[1]), toCanvasYmm(transformed[2])>>

\* A pointer position in pixels, in units of 1/(k * MmPerPx) pixel.
PixelScaled(c, k) == <<c[1] * MmPerPx * k, c[2] * MmPerPx * k>>

(***************************************************************************)
(* JavaScript numbers.  A Number is an IEEE 754 binary64 value; every      *)
(* operation returns the exact result rounded to the nearest value with a  *)
(* 53-bit significand, ties to even.  The values met here are far from the *)
(* subnormal range and from overflow.  A natural number is a sequence of   *)
(* 15-bit limbs, least significant first, without leading zero limbs; a    *)
(* Number is [s, m, e] with value s * m * 2^e, where m is zero or has      *)
(* exactly 53 bits.  The operations are functions, so that an operand is   *)
(* computed once, before the operation is applied.                         *)
(***************************************************************************)
Base == 2^15
Big == Seq(Nat)
Number == [s : {-1, 1}, m : Big, e : Int]

Limb(a, i) == IF i <= Len(a) THEN a[i] ELSE 0

BigTrim[a \in Big] ==
    IF a = <<>> THEN a
    ELSE IF a[Len(a)] = 0 THEN BigTrim[SubSeq(a, 1, Len(a) - 1)] ELSE a

BigOf[n \in Nat] == IF n = 0 THEN <<>> ELSE <<n % Base>> \o BigOf[n \div Base]

IntOf[a \in Big] == IF a = <<>> THEN 0 ELSE a[1] + Base * IntOf[Tail(a)]

\* The limbs from limb i of a + b + carry.
BigAddFrom[a \in Big, b \in Big, i \in Nat, carry \in Nat] ==
    IF i > Len(a) /\ i > Len(b)
    THEN IF carry = 0 THEN <<>> ELSE <<carry>>
    ELSE <<(Limb(a, i) + Limb(b, i) + carry) % Base>>
             \o BigAddFrom[a, b, i + 1, (Limb(a, i) + Limb(b, i) + carry) \div Base]

BigAdd[a \in Big, b \in Big] == BigAddFrom[a, b, 1, 0]

\* The limbs from limb i of a - b - borrow, for a >= b.
BigSubFrom[a \in Big, b \in Big, i \in Nat, borrow \in Nat] ==
    IF i > Len(a) THEN <<>>
    ELSE <<(a[i] - Limb(b, i) - borrow) % Base>>
             \o BigSubFrom[a, b, i + 1, IF a[i] - Limb(b, i) - borrow < 0 THEN 1 ELSE 0]

BigSub[a \in Big, b \in Big] == BigTrim[BigSubFrom[a, b, 1, 0]]

BigCmpAt[a \in Big, b \in Big, i \in Nat] ==
    IF i = 0 THEN 0
    ELSE IF a[i] > b[i] THEN 1
    ELSE IF a[i] < b[i] THEN -1 ELSE BigCmpAt[a, b, i - 1]

\* The sign of a - b.
BigCmp[a \in Big, b \in Big] ==
    IF Len(a) > Len(b) THEN 1
    ELSE IF Len(a) < Len(b) THEN -1 ELSE BigCmpAt[a, b, Len(a)]

BigMulSmallFrom[a \in Big, k \in Nat, i \in Nat, carry \in Nat] ==
    IF i > Len(a)
    THEN IF carry = 0 THEN <<>> ELSE <<carry>>
    ELSE <<(a[i] * k + carry) % Base>>
             \o BigMulSmallFrom[a, k, i + 1, (a[i] * k + carry) \div Base]

\* a * k for 0 <= k <= Base.
BigMulSmall[a \in Big, k \in Nat] == IF k = 0 THEN <<>> ELSE BigMulSmallFrom[a, k, 1, 0]

ShiftLimbs[a \in Big, n \in Nat] == IF a = <<>> THEN a ELSE [i \in 1..n |-> 0] \o a

BigMulFrom[a \in Big, b \in Big, i \in Nat] ==
    IF i > Len(b) THEN <<>>
    ELSE BigAdd[ShiftLimbs[BigMulSmall[a, b[i]], i - 1], BigMulFrom[a, b, i + 1]]

BigMul[a \in Big, b \in Big] == BigMulFrom[a, b, 1]

\* a * 2^n and floor(a / 2^n).
ShiftLeft[a \in Big, n \in Nat] == ShiftLimbs[BigMulSmall[a, 2^(n % 15)], n \div 15]

DropLimbs[a \in Big, k \in Nat] == IF k >= Len(a) THEN <<>> ELSE SubSeq(a, k + 1, Len(a))

ShiftRightBits[d \in Big, r \in Nat] ==
    BigTrim[[i \in 1..Len(d) |-> (d[i] \div 2^r) + (Limb(d, i + 1) % 2^r) * 2^(15 - r)]]

ShiftRight[a \in Big, n \in Nat] == ShiftRightBits[DropLimbs[a, n \div 15], n % 15]

BitLen[a \in Big] ==
    IF a = <<>> THEN 0
    ELSE 15 * (Len(a) - 1)
             + CHOOSE n \in 1..15 : 2^(n - 1) <= a[Len(a)] /\ a[Len(a)] < 2^n

Bit(a, i) == (Limb(a, i \div 15 + 1) \div 2^(i % 15)) % 2

\* The sign of (a mod 2^n) - 2^(n-1) for n >= 1: the part of a that a right
\* shift by n drops, compared with one half.
DroppedCmp[a \in Big, n \in Nat] ==
    BigCmp[BigSub[a, ShiftLeft[ShiftRight[a, n], n]], ShiftLeft[<<1>>, n - 1]]

\* Long division of n by d, one bit at a time: <<q, r>> are the quotient and
\* remainder of the bits of n above bit i; the bits i - 1 .. lo follow.
BigDivStep[d \in Big, q \in Big, r2 \in Big] ==
    IF BigCmp[r2, d] >= 0
    THEN <<BigAdd[BigMulSmall[q, 2], <<1>>], BigSub[r2, d]>>
    ELSE <<BigMulSmall[q, 2], r2>>

BigDivBits[n \in Big, d \in Big, i \in Nat, lo \in Nat, qr \in Seq(Big)] ==
    IF i = lo THEN qr
    ELSE BigDivBits[n, d, i - 1, lo,
                    BigDivStep[d, qr[1],
                               BigAdd[BigMulSmall[qr[2], 2],
                                      IF Bit(n, i - 1) = 1 THEN <<1>> ELSE <<>>]]]

\* <<quotient, remainder>> of the limbs of n above limb j by d.
BigDivLimbs[n \in Big, d \in Big, j \in Nat] ==
    IF j >= Len(n) THEN <<<<>>, <<>>>>
    ELSE BigDivBits[n, d, 15 * (j + 1), 15 * j, BigDivLimbs[n, d, j + 1]]

BigDivMod[n \in Big, d \in Big] == BigDivLimbs[n, d, 0]

Zero == [s |-> 1, m |-> <<>>, e |-> 0]

\* s * r * 2^e for r of 53 or, after a carry, 54 bits.
Carried[s \in {-1, 1}, r \in Big, e \in Int] ==
    IF BitLen[r] > 53 THEN [s |-> s, m |-> ShiftRight[r, 1], e |-> e + 1]
    ELSE [s |-> s, m |-> r, e |-> e]

\* q is m without its d lowest bits and c the sign of the dropped part
\* minus one half: round to nearest, ties to even.
RoundedUp[s \in {-1, 1}, q \in Big, e \in Int, c \in Int, sticky \in BOOLEAN] ==
    IF c > 0 \/ (c = 0 /\ (sticky \/ q[1] % 2 = 1))
    THEN Carried[s, BigAdd[q, <<1>>], e]
    ELSE Carried[s, q, e]

RoundedAt[s \in {-1, 1}, m \in Big, e \in Int, sticky \in BOOLEAN, d \in Int] ==
    IF d <= 0 THEN [s |-> s, m |-> ShiftLeft[m, -d], e |-> e + d]
    ELSE RoundedUp[s, ShiftRight[m, d], e + d, DroppedCmp[m, d], sticky]

\* The Number nearest to s * (m + t) * 2^e, ties to even, where t is 0 or,
\* when sticky, a fraction strictly between 0 and 1.
RoundNumber[s \in {-1, 1}, m \in Big, e \in Int, sticky \in BOOLEAN] ==
    IF m = <<>> THEN Zero ELSE RoundedAt[s, m, e, sticky, BitLen[m] - 53]

NumberOf[n \in Int] == RoundNumber[IF n < 0 THEN -1 ELSE 1, BigOf[Abs(n)], 0, FALSE]

Neg[a \in Number] == IF a.m = <<>> THEN a ELSE [a EXCEPT !.s = -@]

\* s * (am - bm) * 2^e for the sign c of am - bm.
Difference[s \in {-1, 1}, am \in Big, bm \in Big, e \in Int, c \in Int] ==
    IF c = 0 THEN Zero
    ELSE IF c > 0 THEN RoundNumber[s, BigSub[am, bm], e, FALSE]
    ELSE RoundNumber[-s, BigSub[bm, am], e, FALSE]

Aligned[sa \in {-1, 1}, am \in Big, sb \in {-1, 1}, bm \in Big, e \in Int] ==
    IF sa = sb THEN RoundNumber[sa, BigAdd[am, bm], e, FALSE]
    ELSE Difference[sa, am, bm, e, BigCmp[am, bm]]

Add[a \in Number, b \in Number] ==
    IF a.m = <<>> THEN b
    ELSE IF b.m = <<>> THEN a
    ELSE Aligned[a.s, ShiftLeft[a.m, a.e - Min(a.e, b.e)],
                 b.s, ShiftLeft[b.m, b.e - Min(a.e, b.e)], Min(a.e, b.e)]

Sub[a \in Number, b \in Number] == Add[a, Neg[b]]

Mul[a \in Number, b \in Number] ==
    IF a.m = <<>> \/ b.m = <<>> THEN Zero
    ELSE RoundNumber[a.s * b.s, BigMul[a.m, b.m], a.e + b.e, FALSE]

Quotient[s \in {-1, 1}, qr \in Seq(Big), e \in Int] ==
    RoundNumber[s, qr[1], e, qr[2] # <<>>]

\* a / b for b # 0: 56 or 57 quotient bits, and whether a remainder is left.
Div[a \in Number, b \in Number] ==
    IF a.m = <<>> THEN Zero
    ELSE Quotient[a.s * b.s, BigDivMod[ShiftLeft[a.m, 56], b.m], a.e - b.e - 56]

\* ip is the integer part of |a| and c the sign of its fraction minus one
\* half: ties go towards plus infinity.
Nearest[s \in {-1, 1}, ip \in Nat, c \in Int] ==
    IF s = 1 THEN (IF c >= 0 THEN ip + 1 ELSE ip)
    ELSE IF c > 0 THEN -(ip + 1) ELSE -ip

\* Math.round, for a Number below 2^30 in magnitude.
MathRound[a \in Number] ==
    IF a.m = <<>> THEN 0
    ELSE Nearest[a.s, IntOf[ShiftRight[a.m, -a.e]], DroppedCmp[a.m, -a.e]]

(***************************************************************************)
(* The coordinate conversions as the program computes them, on Numbers.    *)
(* The integer definitions above are these on whole pixels and whole       *)
(* millimetres where no operation rounds (WholePixelsExact).               *)
(***************************************************************************)
Point(p) == <<NumberOf[p[1]], NumberOf[p[2]]>>

\* RadarCanvas.resize
widthN == NumberOf[CanvasSize]
heightN == NumberOf[CanvasSize]
centerXN == Div[widthN, NumberOf[2]]
centerYN == heightN
scaleX == Div[widthN, NumberOf[X_MAX - X_MIN]]
scaleY == Div[heightN, NumberOf[Y_MAX - Y_MIN]]

\* width / 2 and height / 2, the centre the view turns about
halfWidthN == Div[widthN, NumberOf[2]]
halfHeightN == Div[heightN, NumberOf[2]]

toCanvasXN(x) == Add[centerXN, Mul[x, scaleX]]
toCanvasYN(y) == Sub[centerYN, Mul[y, scaleY]]
toSensorXN(canvasX) == Div[Sub[canvasX, centerXN], scaleX]
toSensorYN(canvasY) == Div[Sub[centerYN, canvasY], scaleY]

\* Math.cos(deg * Math.PI / 180) and Math.sin(deg * Math.PI / 180) for the
\* angles a map rotation gives: the multiples of pi / 2 are not Numbers, so
\* the cosine of 90 degrees is 2^-54 * 1.1a62633145c07 (hexadecimal)
\* instead of 0, and likewise the sine of 180 degrees and the cosine of 270.
MathCos(deg) ==
    CASE deg = 0 -> NumberOf[1]
      [] Abs(deg) = 90 -> [s |-> 1, m |-> <<23559, 26152, 6296, 141>>, e |-> -106]
      [] Abs(deg) = 180 -> NumberOf[-1]
      [] Abs(deg) = 270 -> [s |-> -1, m |-> <<2570, 6461, 25829, 211>>, e |-> -105]

MathSin(deg) ==
    CASE deg = 0 -> Zero
      [] Abs(deg) = 90 -> NumberOf[IF deg > 0 THEN 1 ELSE -1]
      [] Abs(deg) = 180 -> [s |-> IF deg > 0 THEN 1 ELSE -1,
                            m |-> <<23559, 26152, 6296, 141>>, e |-> -105]
      [] Abs(deg) = 270 -> NumberOf[IF deg > 0 THEN -1 ELSE 1]

\* A faulty variant of toSensorCoordsN that applies the view rotation
\* instead of undoing it.
toSensorCoordsNForward(c, rotation) ==
    LET cx == halfWidthN
        cy == halfHeightN
        dx == Sub[c[1], cx]
        dy == Sub[c[2], cy]
        cos == MathCos(rotation)
        sin == MathSin(rotation)
        unrotatedX == Sub[Add[cx, Mul[dx, cos]], Mul[dy, sin]]
        unrotatedY == Add[Add[cy, Mul[dx, sin]], Mul[dy, cos]]
    IN <<toSensorXN(unrotatedX), toSensorYN(unrotatedY)>>

\* DrawingManager.toSensorCoords
toSensorCoordsN(c, rotation) ==
    LET cx == halfWidthN
        cy == halfHeightN
        dx == Sub[c[1], cx]
        dy == Sub[c[2], cy]
        cos == MathCos(-rotation)
        sin == MathSin(-rotation)
        unrotatedX == Sub[Add[cx, Mul[dx, cos]], Mul[dy, sin]]
        unrotatedY == Add[Add[cy, Mul[dx, sin]], Mul[dy, cos]]
    IN <<toSensorXN(unrotatedX), toSensorYN(unrotatedY)>>

\* DrawingManager.toCanvasCoords
toCanvasCoordsN(p, rotation) ==
    LET unrotatedX == toCanvasXN(p[1])
        unrotatedY == toCanvasYN(p[2])
        cx == halfWidthN
        cy == halfHeightN
        cos == MathCos(rotation)
        sin == MathSin(rotation)
        dx == Sub[unrotatedX, cx]
        dy == Sub[unrotatedY, cy]
    IN <<Sub[Add[cx, Mul[dx, cos]], Mul[dy, sin]],
         Add[Add[cy, Mul[dx, sin]], Mul[dy, cos]]>>

(***************************************************************************)
(* Angles that are multiples of 45 degrees.  cos and sin are Sgn * 1 on    *)
(* the axes and Sgn * sqrt(2)/2 on the diagonals.                          *)
(***************************************************************************)
Norm360(t) == t % 360
Diagonal(t) == Norm360(t) % 90 = 45
CosSgn(t) == LET a == Norm360(t) IN
             IF a = 90 \/ a = 270 THEN 0 ELSE IF a < 90 \/ a > 270 THEN 1 ELSE -1
SinSgn(t) == LET a == Norm360(t) IN
             IF a = 0 \/ a = 180 THEN 0 ELSE IF a < 180 THEN 1 ELSE -1

\* a / b <= x for positive integers a and b, where x is the tail from
\* term k of the continued fraction sqrt(8) = [2; 1, 4, 1, 4, ...].  The
\* comparison is exact and keeps the numbers small.
RECURSIVE CfLeq(_, _, _)
CfLeq(a, b, k) ==
    LET t == IF k = 0 THEN 2 ELSE IF k % 2 = 1 THEN 1 ELSE 4
        q == a \div b
        r == a % b
    IN IF q < t THEN TRUE
       ELSE IF q > t THEN FALSE
       ELSE IF r = 0 THEN TRUE
       ELSE ~CfLeq(b, r, k + 1)

\* a <= sqrt(8) * b, for integers a and b.
LeqSqrt8(a, b) ==
    IF a <= 0 /\ b >= 0 THEN TRUE
    ELSE IF a > 0 /\ b <= 0 THEN FALSE
    ELSE IF a > 0 THEN CfLeq(a, b, 0)
    ELSE ~CfLeq(-a, -b, 0)

(***************************************************************************)
(* HitTester.                                                              *)
(***************************************************************************)
\* isPointInPolygon: even-odd ray casting, edge (i, j) with j the vertex
\* before i.
isPointInPolygon(x, y, vertices) ==
    LET n == Len(vertices)
        Prev(i) == IF i = 1 THEN n ELSE i - 1
        Crosses(i) ==
            LET xi == vertices[i][1]
                yi == vertices[i][2]
                xj == vertices[Prev(i)][1]
                yj == vertices[Prev(i)][2]
            IN /\ (yi > y) # (yj > y)
               /\ IF yj - yi > 0
                  THEN (x - xi) * (yj - yi) < (xj - xi) * (y - yi)
                  ELSE (x - xi) * (yj - yi) > (xj - xi) * (y - yi)
    IN Cardinality({i \in 1..n : Crosses(i)}) % 2 = 1

isPointInZone(p, zone) ==
    IF ~zone.enabled THEN FALSE
    ELSE IF zone.shapeType = "polygon" /\ zone.vertices # <<>>
    THEN isPointInPolygon(p[1], p[2], zone.vertices)
    ELSE /\ p[1] >= Min(zone.x1, zone.x2) /\ p[1] <= Max(zone.x1, zone.x2)
         /\ p[2] >= Min(zone.y1, zone.y2) /\ p[2] <= Max(zone.y1, zone.y2)

isPointInEdge(p, edge) ==
    /\ p[1] >= Min(edge.x1, edge.x2) /\ p[1] <= Max(edge.x1, edge.x2)
    /\ p[2] >= Min(edge.y1, edge.y2) /\ p[2] <= Max(edge.y1, edge.y2)

isPointInEntrance(p, entrance) ==
    LET dx == p[1] - entrance.x
        dy == p[2] - entrance.y
    IN dx * dx + dy * dy <= EntranceHitRadius * EntranceHitRadius

\* isPointInFurniture: the point is rotated by -rotation into the local
\* frame and compared with the half extents.
isPointInFurniture(p, furniture) ==
    LET r == furniture.rotation
        dx == p[1] - furniture.x
        dy == p[2] - furniture.y
        lx == dx * CosSgn(r) + dy * SinSgn(r)
        ly == dy * CosSgn(r) - dx * SinSgn(r)
    IN IF Diagonal(r)
       THEN 2 * lx * lx <= furniture.width * furniture.width
            /\ 2 * ly * ly <= furniture.height * furniture.height
       ELSE 2 * Abs(lx) <= furniture.width /\ 2 * Abs(ly) <= furniture.height

getZoneCorners(zone) ==
    [x1 |-> Min(zone.x1, zone.x2), y1 |-> Min(zone.y1, zone.y2),
     x2 |-> Max(zone.x1, zone.x2), y2 |-> Max(zone.y1, zone.y2)]

\* The eight handles of a bounding box in the order the code tests them;
\* positions are doubled so that the midpoints stay integers.
BoxHandles(corners) ==
    << [type |-> "nw", x |-> 2 * corners.x1, y |-> 2 * corners.y2, updateX |-> "x1", updateY |-> "y2"],
       [type |-> "ne", x |-> 2 * corners.x2, y |-> 2 * corners.y2, updateX |-> "x2", updateY |-> "y2"],
       [type |-> "sw", x |-> 2 * corners.x1, y |-> 2 * corners.y1, updateX |-> "x1", updateY |-> "y1"],
       [type |-> "se", x |-> 2 * corners.x2, y |-> 2 * corners.y1, updateX |-> "x2", updateY |-> "y1"],
       [type |-> "n", x |-> corners.x1 + corners.x2, y |-> 2 * corners.y2, updateX |-> "", updateY |-> "y2"],
       [type |-> "s", x |-> corners.x1 + corners.x2, y |-> 2 * corners.y1, updateX |-> "", updateY |-> "y1"],
       [type |-> "w", x |-> 2 * corners.x1, y |-> corners.y1 + corners.y2, updateX |-> "x1", updateY |-> ""],
       [type |-> "e", x |-> 2 * corners.x2, y |-> corners.y1 + corners.y2, updateX |-> "x2", updateY |-> ""] >>

\* The first handle within handleSize pixels of the pointer, or NoHandle.
HandleHit(c, corners, rotation, itemType, index) ==
    LET hs == BoxHandles(corners)
        ptr == PixelScaled(c, 2)
        Near(h) == LET ch == toCanvasScaled(<<h.x, h.y>>, rotation, 2)
                       dx == ptr[1] - ch[1]
                       dy == ptr[2] - ch[2]
                       r == handleSize * MmPerPx * 2
                   IN dx * dx + dy * dy <= r * r
        hits == {i \in 1..8 : Near(hs[i])}
    IN IF hits = {} THEN NoHandle
       ELSE LET h == hs[CHOOSE i \in hits : \A j \in hits : i <= j]
            IN [type |-> h.type, updateX |-> h.updateX, updateY |-> h.updateY,
                itemType |-> itemType, index |-> index]

getHandleAtPoint(c, zone, zoneIndex, rotation) ==
    IF ~zone.enabled \/ zone.shapeType = "polygon" THEN NoHandle
    ELSE HandleHit(c, getZoneCorners(zone), rotation, "zone", zoneIndex)

getEdgeHandleAtPoint(c, edges, index, rotation) ==
    IF ~Defined(edges, index) THEN NoHandle
    ELSE HandleHit(c, getZoneCorners(At(edges, index)), rotation, "edge", index)

\* getFurnitureHandleAtPoint: the four corner handles in the frame rotated
\* by mapRotation + furniture.rotation, hit radius furnitureHandleSize + 4.
getFurnitureHandleAtPoint(c, furnitureList, index, rotation) ==
    IF ~Defined(furnitureList, index) THEN NoHandle
    ELSE
    LET f == At(furnitureList, index)
        ctr == toCanvasScaled(<<2 * f.x, 2 * f.y>>, rotation, 2)
        ptr == PixelScaled(c, 2)
        total == rotation + f.rotation
        r == (furnitureHandleSize + 4) * MmPerPx * 2
        local == << [type |-> "nw", lx |-> -f.width, ly |-> -f.height],
                    [type |-> "ne", lx |-> f.width, ly |-> -f.height],
                    [type |-> "sw", lx |-> -f.width, ly |-> f.height],
                    [type |-> "se", lx |-> f.width, ly |-> f.height] >>
        Near(h) ==
            LET u == h.lx * CosSgn(total) - h.ly * SinSgn(total)
                v == h.lx * SinSgn(total) + h.ly * CosSgn(total)
                dx == ptr[1] - ctr[1]
                dy == ptr[2] - ctr[2]
            IN IF Diagonal(total)
               THEN LeqSqrt8(2 * dx * dx + 2 * dy * dy + u * u + v * v - 2 * r * r,
                             dx * u + dy * v)
               ELSE (dx - u) * (dx - u) + (dy - v) * (dy - v) <= r * r
        hits == {i \in 1..4 : Near(local[i])}
    IN IF hits = {} THEN NoHandle
       ELSE [type |-> local[CHOOSE i \in hits : \A j \in hits : i <= j].type,
             updateX |-> "", updateY |-> "", itemType |-> "furniture", index |-> index]

(***************************************************************************)
(* State.  The DrawingManager's fields keep their names; zones, furniture, *)
(* entrances and edges are state.zones.zones and state.annotations.*;      *)
(* selectedItemType/selectedItemIndex are the page script's record of the  *)
(* selection; drawingPreview is RadarCanvas.drawingPreview; events is the  *)
(* list of callbacks the last handler invoked, op the handler and its      *)
(* argument, threw whether it ended in a TypeError; steps counts the       *)
(* handlers run so far and limit is the number a behaviour may run.        *)
(***************************************************************************)
VARIABLES mode, isDrawing, isDragging, isMoving, movingItemType, movingItemIndex,
          startPoint, currentPoint, polygonVertices, previewRect, previewPolygon,
          selectedZoneIndex, selectedFurnitureIndex, selectedEntranceIndex,
          selectedEdgeIndex, selectedHandle, dragOffset, isRightClickDragging,
          zones, furniture, entrances, edges, mapRotation, placingFurniture,
          selectedItemType, selectedItemIndex, drawingPreview,
          events, op, threw, steps, limit

vars == <<mode, isDrawing, isDragging, isMoving, movingItemType, movingItemIndex,
          startPoint, currentPoint, polygonVertices, previewRect, previewPolygon,
          selectedZoneIndex, selectedFurnitureIndex, selectedEntranceIndex,
          selectedEdgeIndex, selectedHandle, dragOffset, isRightClickDragging,
          zones, furniture, entrances, edges, mapRotation, placingFurniture,
          selectedItemType, selectedItemIndex, drawingPreview,
          events, op, threw, steps, limit>>

\* The current state as one record, the form the handlers below work on.
St == [mode |-> mode, isDrawing |-> isDrawing, isDragging |-> isDragging,
       isMoving |-> isMoving, movingItemType |-> movingItemType,
       movingItemIndex |-> movingItemIndex, startPoint |-> startPoint,
       currentPoint |-> currentPoint, polygonVertices |-> polygonVertices,
       previewRect |-> previewRect, previewPolygon |-> previewPolygon,
       selectedZoneIndex |-> selectedZoneIndex,
       selectedFurnitureIndex |-> selectedFurnitureIndex,
       selectedEntranceIndex |-> selectedEntranceIndex,
       selectedEdgeIndex |-> selectedEdgeIndex, selectedHandle |-> selectedHandle,
       dragOffset |-> dragOffset, isRightClickDragging |-> isRightClickDragging,
       zones |-> zones, furniture |-> furniture, entrances |-> entrances,
       edges |-> edges, mapRotation |-> mapRotation,
       placingFurniture |-> placingFurniture,
       selectedItemType |-> selectedItemType,
       selectedItemIndex |-> selectedItemIndex,
       drawingPreview |-> drawingPreview,
       events |-> <<>>, threw |-> FALSE]

\* The state a handler leaves becomes the next state.
Becomes(t) ==
    /\ mode' = t.mode /\ isDrawing' = t.isDrawing /\ isDragging' = t.isDragging
    /\ isMoving' = t.isMoving /\ movingItemType' = t.movingItemType
    /\ movingItemIndex' = t.movingItemIndex /\ startPoint' = t.startPoint
    /\ currentPoint' = t.currentPoint /\ polygonVertices' = t.polygonVertices
    /\ previewRect' = t.previewRect /\ previewPolygon' = t.previewPolygon
    /\ selectedZoneIndex' = t.selectedZoneIndex
    /\ selectedFurnitureIndex' = t.selectedFurnitureIndex
    /\ selectedEntranceIndex' = t.selectedEntranceIndex
    /\ selectedEdgeIndex' = t.selectedEdgeIndex
    /\ selectedHandle' = t.selectedHandle /\ dragOffset' = t.dragOffset
    /\ isRightClickDragging' = t.isRightClickDragging
    /\ zones' = t.zones /\ furniture' = t.furniture /\ entrances' = t.entrances
    /\ edges' = t.edges /\ mapRotation' = t.mapRotation
    /\ placingFurniture' = t.placingFurniture
    /\ selectedItemType' = t.selectedItemType
    /\ selectedItemIndex' = t.selectedItemIndex
    /\ drawingPreview' = t.drawingPreview
    /\ events' = t.events /\ threw' = t.threw

(***************************************************************************)
(* The callbacks the page script registers, with their effect on the page  *)
(* script's own state.  onEdgeUpdate is not registered.                    *)
(***************************************************************************)
MsgMaxZones == "Maximum 3 zones. Delete one to add another."
MsgZoneTooSmall == "Zone too small. Minimum size is 200mm x 200mm."
MsgPolygonVertices == "Polygon needs at least 3 vertices."
MsgZoneRotation == "Zone rotation is not supported by the SHS01 sensor. Zones must be axis-aligned."

Emit(s, e) == [s EXCEPT !.events = Append(@, e)]
Throw(s) == [s EXCEPT !.threw = TRUE]

HostSelected(s, type, index) ==
    IF index # NullIndex
    THEN [s EXCEPT !.selectedItemType = type, !.selectedItemIndex = index]
    ELSE [s EXCEPT !.selectedItemType = "", !.selectedItemIndex = NullIndex]

\* The created, placed, updated and deleted callbacks render and save the
\* registry: their event carries the list of shapes as the callback sees it.
onModeChange(s, m) == Emit(s, <<"onModeChange", m>>)
onPreviewUpdate(s, preview) ==
    Emit([s EXCEPT !.drawingPreview = preview], <<"onPreviewUpdate", preview>>)
onError(s, message) == Emit(s, <<"onError", message>>)
onZoneSelect(s, index) == HostSelected(Emit(s, <<"onZoneSelect", index>>), "zone", index)
onZoneCreated(s, index) ==
    Emit([s EXCEPT !.selectedItemType = "zone", !.selectedItemIndex = index],
         <<"onZoneCreated", index, s.zones>>)
onZoneUpdate(s, index) == Emit(s, <<"onZoneUpdate", index, s.zones>>)
onZoneDeleted(s, index) ==
    Emit([s EXCEPT !.selectedItemType = "", !.selectedItemIndex = NullIndex],
         <<"onZoneDeleted", index, s.zones>>)
onFurniturePlaced(s) == Emit(s, <<"onFurniturePlaced", Len(s.furniture) - 1, s.furniture>>)
onFurnitureSelect(s, index) ==
    HostSelected(Emit(s, <<"onFurnitureSelect", index>>), "furniture", index)
onFurnitureUpdate(s, index) == Emit(s, <<"onFurnitureUpdate", index, s.furniture>>)
onFurnitureDeleted(s, index) ==
    Emit([s EXCEPT !.selectedItemType = "", !.selectedItemIndex = NullIndex],
         <<"onFurnitureDeleted", index, s.furniture>>)
onEntrancePlaced(s) == Emit(s, <<"onEntrancePlaced", Len(s.entrances) - 1, s.entrances>>)
onEntranceSelect(s, index) ==
    HostSelected(Emit(s, <<"onEntranceSelect", index>>), "entrance", index)
onEntranceUpdate(s, index) == Emit(s, <<"onEntranceUpdate", index, s.entrances>>)
onEntranceDeleted(s, index) ==
    Emit([s EXCEPT !.selectedItemType = "", !.selectedItemIndex = NullIndex],
         <<"onEntranceDeleted", index, s.entrances>>)
onEdgePlaced(s) == Emit(s, <<"onEdgePlaced", Len(s.edges) - 1, s.edges>>)
onEdgeSelect(s, index) == HostSelected(Emit(s, <<"onEdgeSelect", index>>), "edge", index)
onEdgeDeleted(s, index) ==
    Emit([s EXCEPT !.selectedItemType = "", !.selectedItemIndex = NullIndex],
         <<"onEdgeDeleted", index, s.edges>>)

(***************************************************************************)
(* DrawingManager: mode and selection.                                     *)
(***************************************************************************)
\* A faulty variant of resetDrawingState that forgets the explicit move and
\* the polygon vertices placed so far.
resetDrawingStateKeepsGesture(s) ==
    onPreviewUpdate([s EXCEPT !.isDrawing = FALSE, !.isDragging = FALSE,
                              !.startPoint = NoPoint, !.currentPoint = NoPoint,
                              !.previewRect = <<>>, !.previewPolygon = <<>>,
                              !.selectedHandle = NoHandle],
                    <<>>)

resetDrawingState(s) ==
    onPreviewUpdate([s EXCEPT !.isDrawing = FALSE, !.isDragging = FALSE,
                              !.isMoving = FALSE, !.movingItemType = "",
                              !.movingItemIndex = NullIndex, !.startPoint = NoPoint,
                              !.currentPoint = NoPoint, !.polygonVertices = <<>>,
                              !.previewRect = <<>>, !.previewPolygon = <<>>,
                              !.selectedHandle = NoHandle],
                    <<>>)

setMode(s, m) == onModeChange(resetDrawingState([s EXCEPT !.mode = m]), m)

clearOtherSelections(s, keepType) ==
    LET a == IF keepType # "zone" /\ s.selectedZoneIndex # NullIndex
             THEN onZoneSelect([s EXCEPT !.selectedZoneIndex = NullIndex], NullIndex)
             ELSE s
        b == IF keepType # "furniture" /\ a.selectedFurnitureIndex # NullIndex
             THEN onFurnitureSelect([a EXCEPT !.selectedFurnitureIndex = NullIndex], NullIndex)
             ELSE a
        c == IF keepType # "entrance" /\ b.selectedEntranceIndex # NullIndex
             THEN onEntranceSelect([b EXCEPT !.selectedEntranceIndex = NullIndex], NullIndex)
             ELSE b
    IN IF keepType # "edge" /\ c.selectedEdgeIndex # NullIndex
       THEN onEdgeSelect([c EXCEPT !.selectedEdgeIndex = NullIndex], NullIndex)
       ELSE c

\* A faulty variant of getNextAvailableZoneSlot that hands out slot 0
\* without looking at its enabled flag.
getNextAvailableZoneSlotUnchecked(zs) == 0

\* getNextAvailableZoneSlot: the first of the slots 0 .. SlotScanLimit-1
\* that is not enabled, or -1.
getNextAvailableZoneSlot(zs) ==
    LET free == {i \in 0..(SlotScanLimit - 1) : ~At(zs, i).enabled}
    IN IF free = {} THEN -1 ELSE CHOOSE i \in free : \A j \in free : i <= j

(***************************************************************************)
(* DrawingManager: pointer-down.                                           *)
(* dragOffset holds twice the JavaScript value, so that an offset from a   *)
(* bounding-box centre (x1 + x2) / 2 stays an integer.                     *)
(***************************************************************************)
BoxOffset(p, box) == <<2 * p[1] - (box.x1 + box.x2), 2 * p[2] - (box.y1 + box.y2)>>
PointOffset(p, item) == <<2 * (p[1] - item.x), 2 * (p[2] - item.y)>>

StartDrag(s, offset, right) ==
    [s EXCEPT !.isDragging = TRUE, !.dragOffset = offset,
              !.isRightClickDragging = IF right THEN TRUE ELSE @]

\* A faulty variant of handleRightClickDrag that does not test whether the
\* pointer is on the body of the selected shape.
handleRightClickDragLoose(s, c, p) ==
    IF \/ s.selectedZoneIndex # NullIndex \/ s.selectedFurnitureIndex # NullIndex
       \/ s.selectedEntranceIndex # NullIndex \/ s.selectedEdgeIndex # NullIndex
    THEN StartDrag(s, <<0, 0>>, TRUE)
    ELSE s

handleRightClickDrag(s, c, p) ==
    LET zone == At(s.zones, s.selectedZoneIndex)
        f == At(s.furniture, s.selectedFurnitureIndex)
        en == At(s.entrances, s.selectedEntranceIndex)
        ed == At(s.edges, s.selectedEdgeIndex)
    IN IF s.selectedZoneIndex # NullIndex /\ zone.enabled /\ isPointInZone(p, zone)
       THEN StartDrag(s, BoxOffset(p, getZoneCorners(zone)), TRUE)
       ELSE IF /\ s.selectedFurnitureIndex # NullIndex
               /\ Defined(s.furniture, s.selectedFurnitureIndex)
               /\ isPointInFurniture(p, f)
       THEN StartDrag(s, PointOffset(p, f), TRUE)
       ELSE IF /\ s.selectedEntranceIndex # NullIndex
               /\ Defined(s.entrances, s.selectedEntranceIndex)
               /\ isPointInEntrance(p, en)
       THEN StartDrag(s, PointOffset(p, en), TRUE)
       ELSE IF /\ s.selectedEdgeIndex # NullIndex
               /\ Defined(s.edges, s.selectedEdgeIndex)
               /\ isPointInEdge(p, ed)
       THEN StartDrag(s, BoxOffset(p, ed), TRUE)
       ELSE s

StartResize(s, handle, p) ==
    [s EXCEPT !.selectedHandle = handle, !.isDragging = TRUE, !.startPoint = p]

\* The topmost shape of each kind under the pointer: entrances, furniture
\* and edges are searched from the last index down, zones from slot 0 up.
Topmost(hits) == CHOOSE i \in hits : \A j \in hits : i >= j
Lowest(hits) == CHOOSE i \in hits : \A j \in hits : i <= j

\* A faulty variant of SelectAtPoint that looks at the furniture before the
\* entrances.
SelectAtPointFurnitureFirst(s, p) ==
    LET enHits == {i \in 0..(Len(s.entrances) - 1) : isPointInEntrance(p, At(s.entrances, i))}
        fHits == {i \in 0..(Len(s.furniture) - 1) : isPointInFurniture(p, At(s.furniture, i))}
        zHits == {i \in 0..(Len(s.zones) - 1) : isPointInZone(p, At(s.zones, i))}
        edHits == {i \in 0..(Len(s.edges) - 1) : isPointInEdge(p, At(s.edges, i))}
    IN IF fHits # {}
       THEN onFurnitureSelect([clearOtherSelections(s, "furniture")
                                 EXCEPT !.selectedFurnitureIndex = Topmost(fHits)],
                              Topmost(fHits))
       ELSE IF enHits # {}
       THEN onEntranceSelect([clearOtherSelections(s, "entrance")
                                EXCEPT !.selectedEntranceIndex = Topmost(enHits)],
                             Topmost(enHits))
       ELSE IF zHits # {}
       THEN onZoneSelect([clearOtherSelections(s, "zone")
                            EXCEPT !.selectedZoneIndex = Lowest(zHits)],
                         Lowest(zHits))
       ELSE IF edHits # {}
       THEN onEdgeSelect([clearOtherSelections(s, "edge")
                            EXCEPT !.selectedEdgeIndex = Topmost(edHits)],
                         Topmost(edHits))
       ELSE clearOtherSelections(s, "")

SelectAtPoint(s, p) ==
    LET enHits == {i \in 0..(Len(s.entrances) - 1) : isPointInEntrance(p, At(s.entrances, i))}
        fHits == {i \in 0..(Len(s.furniture) - 1) : isPointInFurniture(p, At(s.furniture, i))}
        zHits == {i \in 0..(Len(s.zones) - 1) : isPointInZone(p, At(s.zones, i))}
        edHits == {i \in 0..(Len(s.edges) - 1) : isPointInEdge(p, At(s.edges, i))}
    IN IF enHits # {}
       THEN onEntranceSelect([clearOtherSelections(s, "entrance")
                                EXCEPT !.selectedEntranceIndex = Topmost(enHits)],
                             Topmost(enHits))
       ELSE IF fHits # {}
       THEN onFurnitureSelect([clearOtherSelections(s, "furniture")
                                 EXCEPT !.selectedFurnitureIndex = Topmost(fHits)],
                              Topmost(fHits))
       ELSE IF zHits # {}
       THEN onZoneSelect([clearOtherSelections(s, "zone")
                            EXCEPT !.selectedZoneIndex = Lowest(zHits)],
                         Lowest(zHits))
       ELSE IF edHits # {}
       THEN onEdgeSelect([clearOtherSelections(s, "edge")
                            EXCEPT !.selectedEdgeIndex = Topmost(edHits)],
                         Topmost(edHits))
       ELSE clearOtherSelections(s, "")

\* handleSelectMouseDown.  The four blocks for the selected furniture,
\* zone, entrance and edge run in this order; each either starts a gesture
\* and returns, or falls through.  isPointInFurniture dereferences the
\* furniture without a guard: a stale selectedFurnitureIndex throws.
SelectDownEdge(s, c, p) ==
    LET ed == At(s.edges, s.selectedEdgeIndex)
        handle == getEdgeHandleAtPoint(c, s.edges, s.selectedEdgeIndex, s.mapRotation)
    IN IF s.selectedEdgeIndex = NullIndex THEN SelectAtPoint(s, p)
       ELSE IF handle # NoHandle THEN StartResize(s, handle, p)
       ELSE IF Defined(s.edges, s.selectedEdgeIndex) /\ isPointInEdge(p, ed)
       THEN StartDrag(s, BoxOffset(p, ed), FALSE)
       ELSE SelectAtPoint(s, p)

SelectDownEntrance(s, c, p) ==
    LET en == At(s.entrances, s.selectedEntranceIndex)
    IN IF /\ s.selectedEntranceIndex # NullIndex
          /\ Defined(s.entrances, s.selectedEntranceIndex)
          /\ isPointInEntrance(p, en)
       THEN StartDrag(s, PointOffset(p, en), FALSE)
       ELSE SelectDownEdge(s, c, p)

SelectDownZone(s, c, p) ==
    LET zone == At(s.zones, s.selectedZoneIndex)
        handle == getHandleAtPoint(c, zone, s.selectedZoneIndex, s.mapRotation)
    IN IF s.selectedZoneIndex = NullIndex THEN SelectDownEntrance(s, c, p)
       ELSE IF handle # NoHandle
       THEN StartResize(s, handle, p)
       ELSE IF zone.enabled /\ isPointInZone(p, zone)
       THEN StartDrag(s, BoxOffset(p, getZoneCorners(zone)), FALSE)
       ELSE SelectDownEntrance(s, c, p)

handleSelectMouseDown(s, c, p) ==
    LET f == At(s.furniture, s.selectedFurnitureIndex)
        handle == getFurnitureHandleAtPoint(c, s.furniture, s.selectedFurnitureIndex,
                                            s.mapRotation)
    IN IF s.selectedFurnitureIndex = NullIndex THEN SelectDownZone(s, c, p)
       ELSE IF handle # NoHandle THEN StartResize(s, handle, p)
       ELSE IF ~Defined(s.furniture, s.selectedFurnitureIndex) THEN Throw(s)
       ELSE IF isPointInFurniture(p, f) THEN StartDrag(s, PointOffset(p, f), FALSE)
       ELSE SelectDownZone(s, c, p)

handleRectangleMouseDown(s, p) ==
    IF getNextAvailableZoneSlot(s.zones) = -1 THEN onError(s, MsgMaxZones)
    ELSE [s EXCEPT !.isDrawing = TRUE, !.startPoint = p, !.currentPoint = p]

handleEdgeMouseDown(s, p) ==
    [s EXCEPT !.isDrawing = TRUE, !.startPoint = p, !.currentPoint = p]

\* min/max of the vertices' coordinates.
VertexXs(vs) == [i \in 1..Len(vs) |-> vs[i][1]]
VertexYs(vs) == [i \in 1..Len(vs) |-> vs[i][2]]

finishPolygon(s) ==
    LET slot == getNextAvailableZoneSlot(s.zones)
        vs == s.polygonVertices
        zone == At(s.zones, slot)
        made == [zone EXCEPT !.enabled = TRUE, !.shapeType = "polygon",
                             !.vertices = vs,
                             !.x1 = MinOf(VertexXs(vs)), !.y1 = MinOf(VertexYs(vs)),
                             !.x2 = MaxOf(VertexXs(vs)), !.y2 = MaxOf(VertexYs(vs)),
                             !.zoneType = IF @ = "" THEN "detection" ELSE @]
        a == resetDrawingState([s EXCEPT !.zones[slot + 1] = made])
    IN IF slot = -1 THEN s
       ELSE IF Len(vs) < 3 THEN resetDrawingState(onError(s, MsgPolygonVertices))
       ELSE onZoneCreated(setMode([a EXCEPT !.selectedZoneIndex = slot], "select"), slot)

handlePolygonClick(s, p) ==
    LET point == <<Snap(p[1], ZoneGrid), Snap(p[2], ZoneGrid)>>
        first == s.polygonVertices[1]
        dx == point[1] - first[1]
        dy == point[2] - first[2]
        vs == Append(s.polygonVertices, point)
    IN IF getNextAvailableZoneSlot(s.zones) = -1 THEN onError(s, MsgMaxZones)
       ELSE IF /\ Len(s.polygonVertices) >= 3
               /\ dx * dx + dy * dy < PolygonCloseDist * PolygonCloseDist
       THEN finishPolygon(s)
       ELSE onPreviewUpdate([s EXCEPT !.polygonVertices = vs], <<"polygon", vs>>)

\* getFurnitureDefaultSize, for the furniture types the model places.
getFurnitureDefaultSize(type) ==
    CASE type = "chair" -> [width |-> 700, height |-> 700]
      [] type = "dining-chair" -> [width |-> 450, height |-> 450]
      [] type = "tv" -> [width |-> 1400, height |-> 200]
      [] OTHER -> [width |-> 500, height |-> 500]

handleFurniturePlacement(s, p) ==
    LET size == getFurnitureDefaultSize(s.placingFurniture)
        item == [type |-> s.placingFurniture,
                 x |-> Snap(p[1], 100), y |-> Snap(p[2], 100),
                 rotation |-> s.mapRotation,
                 width |-> size.width, height |-> size.height]
    IN IF s.placingFurniture = "" THEN s
       ELSE onFurniturePlaced([s EXCEPT !.furniture = Append(@, item)])

\* A faulty variant of handleEntrancePlacement that stays in place-entrance
\* mode.
handleEntrancePlacementStays(s, p) ==
    LET item == [x |-> Snap(p[1], 100), y |-> Snap(p[2], 100),
                 direction |-> 0, width |-> 0]
    IN onEntrancePlaced([s EXCEPT !.entrances = Append(@, item)])

\* A new entrance has no width field (0 stands for the missing field).
handleEntrancePlacement(s, p) ==
    LET item == [x |-> Snap(p[1], 100), y |-> Snap(p[2], 100),
                 direction |-> 0, width |-> 0]
    IN onEntrancePlaced(setMode([s EXCEPT !.entrances = Append(@, item)], "select"))

\* finishMoveMode: ends the explicit move and reports the moved item.
finishMoveMode(s) ==
    LET type == s.movingItemType
        index == s.movingItemIndex
        a == [s EXCEPT !.isMoving = FALSE, !.movingItemType = "",
                       !.movingItemIndex = NullIndex]
        b == IF type = "zone" THEN onZoneUpdate(a, index)
             ELSE IF type = "furniture" THEN onFurnitureUpdate(a, index)
             ELSE IF type = "entrance" THEN onEntranceUpdate(a, index)
             ELSE a
    IN IF ~s.isMoving THEN s ELSE onModeChange(b, "select")

handleMouseDown(s, c, button) ==
    LET p == toSensorCoords(c, s.mapRotation)
    IN IF button = 2 THEN handleRightClickDrag(s, c, p)
       ELSE CASE s.mode \in {"select", "moving"} ->
                     IF s.isMoving THEN finishMoveMode(s)
                     ELSE handleSelectMouseDown(s, c, p)
              [] s.mode = "draw-rectangle" -> handleRectangleMouseDown(s, p)
              [] s.mode = "draw-polygon" -> handlePolygonClick(s, p)
              [] s.mode = "place-furniture" -> handleFurniturePlacement(s, p)
              [] s.mode = "place-entrance" -> handleEntrancePlacement(s, p)
              [] s.mode = "draw-edge" -> handleEdgeMouseDown(s, p)
              [] OTHER -> s

(***************************************************************************)
(* DrawingManager: pointer-move.                                           *)
(***************************************************************************)
ClampOff(lo, hi, v) == v
Clamp(lo, hi, v) == Max(lo, Min(hi, v))

\* Math.round(sqrt(2) * m / g) * g for an integer m >= 0: the largest
\* multiple k * g with (k - 1/2) * g <= sqrt(2) * m.
SnapSqrt2(m, g) ==
    LET ks == {k \in 0..((3 * m) \div (2 * g) + 1) : k = 0 \/ (2 * g * k - g) * (2 * g * k - g) <= 8 * m * m}
    IN g * (CHOOSE k \in ks : \A j \in ks : k >= j)

\* A faulty variant of resizeFurniture without the 200 mm floor.
resizeFurnitureNoFloor(s, p) ==
    LET i == s.selectedFurnitureIndex
        f == At(s.furniture, i)
        r == f.rotation
        lx == Abs((p[1] - f.x) * CosSgn(r) + (p[2] - f.y) * SinSgn(r))
        ly == Abs((p[2] - f.y) * CosSgn(r) - (p[1] - f.x) * SinSgn(r))
        Size(l) == IF Diagonal(r) THEN SnapSqrt2(l, AnnotationGrid)
                   ELSE Snap(2 * l, AnnotationGrid)
    IN IF ~Defined(s.furniture, i) THEN Throw(s)
       ELSE onFurnitureUpdate([s EXCEPT !.furniture[i + 1].width = Size(lx),
                                        !.furniture[i + 1].height = Size(ly)], i)

\* resizeFurniture: width and height from the pointer offset in the
\* furniture's local frame, floored at 200 and rounded to 50.  All four
\* handle types compute the same.
resizeFurniture(s, p) ==
    LET i == s.selectedFurnitureIndex
        f == At(s.furniture, i)
        r == f.rotation
        dx == p[1] - f.x
        dy == p[2] - f.y
        lx == Abs(dx * CosSgn(r) + dy * SinSgn(r))
        ly == Abs(dy * CosSgn(r) - dx * SinSgn(r))
        minSize == 200
        Size(l) == IF Diagonal(r)
                   THEN IF 2 * l * l < minSize * minSize THEN minSize
                        ELSE SnapSqrt2(l, AnnotationGrid)
                   ELSE Snap(Max(minSize, 2 * l), AnnotationGrid)
    IN IF ~Defined(s.furniture, i) THEN Throw(s)
       ELSE onFurnitureUpdate([s EXCEPT !.furniture[i + 1].width = Size(lx),
                                        !.furniture[i + 1].height = Size(ly)], i)

\* The position of a corner handle of a furniture item as
\* getFurnitureHandleAtPoint computes it, taken back to sensor space by
\* toSensorCoords: the offset from the item's centre is (dx, dy) / 2 mm on
\* the axes and (dx, dy) * sqrt(2) / 4 mm at a diagonal rotation.
CornerTypes == {"nw", "ne", "sw", "se"}

cornerOffset(f, type, rotation) ==
    LET lx == IF type \in {"nw", "sw"} THEN -f.width ELSE f.width
        ly == IF type \in {"nw", "ne"} THEN -f.height ELSE f.height
        total == rotation + f.rotation
        rx == lx * CosSgn(total) - ly * SinSgn(total)
        ry == lx * SinSgn(total) + ly * CosSgn(total)
        cos == Cos90(rotation)
        sin == -Sin90(rotation)
    IN <<rx * cos - ry * sin, -(rx * sin + ry * cos)>>

\* resizeFurniture with the pointer exactly on the corner handle: at a
\* diagonal rotation the two factors sqrt(2) / 2, of the handle position
\* and of the rotation into the local frame, multiply to 1 / 2.
resizeFurnitureAtCorner(s, type) ==
    LET i == s.selectedFurnitureIndex
        f == At(s.furniture, i)
        r == f.rotation
        d == cornerOffset(f, type, s.mapRotation)
        localX == Abs(d[1] * CosSgn(r) + d[2] * SinSgn(r))
        localY == Abs(d[2] * CosSgn(r) - d[1] * SinSgn(r))
        minSize == 200
        Size(l) == Snap(Max(minSize, IF Diagonal(r) THEN l \div 2 ELSE l), AnnotationGrid)
        handle == [type |-> type, updateX |-> "", updateY |-> "",
                   itemType |-> "furniture", index |-> i]
        a == StartResize(s, handle, NoPoint)
    IN IF ~Defined(s.furniture, i) THEN s
       ELSE onFurnitureUpdate([a EXCEPT !.furniture[i + 1].width = Size(localX),
                                        !.furniture[i + 1].height = Size(localY)], i)

\* A faulty variant of ResizeBox in which a midpoint handle also moves the
\* west or the south side.
ResizeBoxLoose(box, handle, p) ==
    LET x == Clamp(X_MIN, X_MAX, Snap(p[1], ZoneGrid))
        y == Clamp(Y_MIN, Y_MAX, Snap(p[2], ZoneGrid))
    IN [box EXCEPT !.x1 = IF handle.updateX \in {"x1", ""} THEN x ELSE @,
                   !.x2 = IF handle.updateX = "x2" THEN x ELSE @,
                   !.y1 = IF handle.updateY \in {"y1", ""} THEN y ELSE @,
                   !.y2 = IF handle.updateY = "y2" THEN y ELSE @]

\* The bounding-box field(s) named by the active handle are set to the
\* snapped, clamped pointer position.
ResizeBox(box, handle, p) ==
    LET x == Clamp(X_MIN, X_MAX, Snap(p[1], ZoneGrid))
        y == Clamp(Y_MIN, Y_MAX, Snap(p[2], ZoneGrid))
    IN [box EXCEPT !.x1 = IF handle.updateX = "x1" THEN x ELSE @,
                   !.x2 = IF handle.updateX = "x2" THEN x ELSE @,
                   !.y1 = IF handle.updateY = "y1" THEN y ELSE @,
                   !.y2 = IF handle.updateY = "y2" THEN y ELSE @]

\* resizeZone indexes the zones by selectedZoneIndex without a guard.
resizeZone(s, p) ==
    LET i == s.selectedZoneIndex
    IN IF ~Defined(s.zones, i) THEN Throw(s)
       ELSE onZoneUpdate([s EXCEPT !.zones[i + 1] = ResizeBox(@, s.selectedHandle, p)], i)

resizeEdge(s, p) ==
    LET i == s.selectedEdgeIndex
    IN IF ~Defined(s.edges, i) THEN s
       ELSE [s EXCEPT !.edges[i + 1] = ResizeBox(@, s.selectedHandle, p)]

\* moveZone: the centre follows pointer - dragOffset; the box is shifted
\* back into range and each coordinate is then rounded to the grid.
moveZone(s, p) ==
    LET i == s.selectedZoneIndex
        corners == getZoneCorners(At(s.zones, i))
        w == corners.x2 - corners.x1
        h == corners.y2 - corners.y1
        cx2 == 2 * p[1] - s.dragOffset[1]
        cy2 == 2 * p[2] - s.dragOffset[2]
        ax1 == IF cx2 - w < 2 * X_MIN THEN 2 * X_MIN ELSE cx2 - w
        ax2 == IF cx2 - w < 2 * X_MIN THEN 2 * X_MIN + 2 * w ELSE cx2 + w
        bx2 == IF ax2 > 2 * X_MAX THEN 2 * X_MAX ELSE ax2
        bx1 == IF ax2 > 2 * X_MAX THEN 2 * X_MAX - 2 * w ELSE ax1
        ay1 == IF cy2 - h < 2 * Y_MIN THEN 2 * Y_MIN ELSE cy2 - h
        ay2 == IF cy2 - h < 2 * Y_MIN THEN 2 * Y_MIN + 2 * h ELSE cy2 + h
        by2 == IF ay2 > 2 * Y_MAX THEN 2 * Y_MAX ELSE ay2
        by1 == IF ay2 > 2 * Y_MAX THEN 2 * Y_MAX - 2 * h ELSE ay1
    IN IF ~Defined(s.zones, i) THEN Throw(s)
       ELSE onZoneUpdate([s EXCEPT !.zones[i + 1].x1 = SnapHalf(bx1, ZoneGrid),
                                   !.zones[i + 1].x2 = SnapHalf(bx2, ZoneGrid),
                                   !.zones[i + 1].y1 = SnapHalf(by1, ZoneGrid),
                                   !.zones[i + 1].y2 = SnapHalf(by2, ZoneGrid)], i)

moveEdge(s, p) ==
    LET i == s.selectedEdgeIndex
        edge == At(s.edges, i)
        width == Abs(edge.x2 - edge.x1)
        height == Abs(edge.y2 - edge.y1)
        newX1 == Clamp(X_MIN, X_MAX - width, SnapHalf(2 * p[1] - s.dragOffset[1] - width, ZoneGrid))
        newY1 == Clamp(Y_MIN, Y_MAX - height, SnapHalf(2 * p[2] - s.dragOffset[2] - height, ZoneGrid))
    IN IF ~Defined(s.edges, i) THEN s
       ELSE [s EXCEPT !.edges[i + 1].x1 = newX1, !.edges[i + 1].y1 = newY1,
                      !.edges[i + 1].x2 = newX1 + width,
                      !.edges[i + 1].y2 = newY1 + height]

\* The centre of a furniture item of the given size, snapped to 50 and
\* kept half a width from the range limits (doubled values v2).
FurnitureCentre(v2, lo, hi, size) ==
    Clamp(2 * lo + size, 2 * hi - size, 2 * SnapHalf(v2, AnnotationGrid)) \div 2

moveFurniture(s, p) ==
    LET i == s.selectedFurnitureIndex
        f == At(s.furniture, i)
    IN IF ~Defined(s.furniture, i) THEN Throw(s)
       ELSE onFurnitureUpdate(
              [s EXCEPT !.furniture[i + 1].x =
                            FurnitureCentre(2 * p[1] - s.dragOffset[1], X_MIN, X_MAX, f.width),
                        !.furniture[i + 1].y =
                            FurnitureCentre(2 * p[2] - s.dragOffset[2], Y_MIN, Y_MAX, f.height)], i)

moveEntrance(s, p) ==
    LET i == s.selectedEntranceIndex
    IN IF ~Defined(s.entrances, i) THEN Throw(s)
       ELSE onEntranceUpdate(
              [s EXCEPT !.entrances[i + 1].x =
                            Clamp(X_MIN, X_MAX, SnapHalf(2 * p[1] - s.dragOffset[1], AnnotationGrid)),
                        !.entrances[i + 1].y =
                            Clamp(Y_MIN, Y_MAX, SnapHalf(2 * p[2] - s.dragOffset[2], AnnotationGrid))], i)

\* The explicit move mode: the shape follows the pointer, no callback.
moveZoneToPosition(s, p) ==
    LET i == s.movingItemIndex
        zone == At(s.zones, i)
        width == Abs(zone.x2 - zone.x1)
        height == Abs(zone.y2 - zone.y1)
        cX == Snap(p[1], ZoneGrid)
        cY == Snap(p[2], ZoneGrid)
        newX1 == Clamp(2 * X_MIN, 2 * (X_MAX - width), 2 * cX - width)
        newY1 == Clamp(2 * Y_MIN, 2 * (Y_MAX - height), 2 * cY - height)
    IN IF ~Defined(s.zones, i) \/ ~zone.enabled THEN s
       ELSE [s EXCEPT !.zones[i + 1].x1 = newX1 \div 2, !.zones[i + 1].y1 = newY1 \div 2,
                      !.zones[i + 1].x2 = newX1 \div 2 + width,
                      !.zones[i + 1].y2 = newY1 \div 2 + height]

moveFurnitureToPosition(s, p) ==
    LET i == s.movingItemIndex
        f == At(s.furniture, i)
    IN IF ~Defined(s.furniture, i) THEN s
       ELSE [s EXCEPT !.furniture[i + 1].x = FurnitureCentre(2 * p[1], X_MIN, X_MAX, f.width),
                      !.furniture[i + 1].y = FurnitureCentre(2 * p[2], Y_MIN, Y_MAX, f.height)]

moveEntranceToPosition(s, p) ==
    LET i == s.movingItemIndex
    IN IF ~Defined(s.entrances, i) THEN s
       ELSE [s EXCEPT !.entrances[i + 1].x = Clamp(X_MIN, X_MAX, Snap(p[1], AnnotationGrid)),
                      !.entrances[i + 1].y = Clamp(Y_MIN, Y_MAX, Snap(p[2], AnnotationGrid))]

\* The hover branch of handleSelectMouseMove only sets the cursor, which
\* is not modelled, but it dereferences the selected furniture and the
\* selected edge without a guard.
HoverThrows(s, c, p) ==
    LET fi == s.selectedFurnitureIndex
        zi == s.selectedZoneIndex
        ei == s.selectedEdgeIndex
        fDone == /\ fi # NullIndex /\ Defined(s.furniture, fi)
                 /\ \/ getFurnitureHandleAtPoint(c, s.furniture, fi, s.mapRotation) # NoHandle
                    \/ isPointInFurniture(p, At(s.furniture, fi))
        zDone == /\ zi # NullIndex
                 /\ \/ getHandleAtPoint(c, At(s.zones, zi), zi, s.mapRotation) # NoHandle
                    \/ isPointInZone(p, At(s.zones, zi))
    IN IF fi # NullIndex /\ ~Defined(s.furniture, fi) THEN TRUE
       ELSE IF fDone \/ zDone THEN FALSE
       ELSE ei # NullIndex /\ ~Defined(s.edges, ei)

handleSelectMouseMove(s, c, p) ==
    IF s.isMoving
    THEN CASE s.movingItemType = "zone" -> moveZoneToPosition(s, p)
           [] s.movingItemType = "furniture" -> moveFurnitureToPosition(s, p)
           [] s.movingItemType = "entrance" -> moveEntranceToPosition(s, p)
           [] OTHER -> s
    ELSE IF ~s.isDragging
    THEN IF HoverThrows(s, c, p) THEN Throw(s) ELSE s
    ELSE IF s.selectedHandle # NoHandle
    THEN CASE s.selectedHandle.itemType = "furniture" -> resizeFurniture(s, p)
           [] s.selectedHandle.itemType = "edge" -> resizeEdge(s, p)
           [] OTHER -> resizeZone(s, p)
    ELSE IF s.selectedEntranceIndex # NullIndex THEN moveEntrance(s, p)
    ELSE IF s.selectedFurnitureIndex # NullIndex THEN moveFurniture(s, p)
    ELSE IF s.selectedZoneIndex # NullIndex THEN moveZone(s, p)
    ELSE IF s.selectedEdgeIndex # NullIndex THEN moveEdge(s, p)
    ELSE s

updateRectanglePreview(s, p) ==
    LET rect == <<s.startPoint[1], s.startPoint[2], p[1], p[2], 0>>
    IN onPreviewUpdate([s EXCEPT !.previewRect = rect], <<"rectangle", rect>>)

updatePolygonPreview(s, p) ==
    LET vs == Append(s.polygonVertices, p)
    IN onPreviewUpdate([s EXCEPT !.previewPolygon = vs], <<"polygon", vs>>)

updateEdgePreview(s, p) ==
    LET rect == <<Snap(s.startPoint[1], 100), Snap(s.startPoint[2], 100),
                  Snap(p[1], 100), Snap(p[2], 100), 1>>
    IN onPreviewUpdate([s EXCEPT !.previewRect = rect], <<"edge", rect>>)

handleMouseMove(s, c) ==
    LET p == toSensorCoords(c, s.mapRotation)
        a == [s EXCEPT !.currentPoint = p]
    IN CASE a.mode \in {"select", "moving"} -> handleSelectMouseMove(a, c, p)
         [] a.mode = "draw-rectangle" ->
                IF a.isDrawing THEN updateRectanglePreview(a, p) ELSE a
         [] a.mode = "draw-polygon" ->
                IF Len(a.polygonVertices) > 0 THEN updatePolygonPreview(a, p) ELSE a
         [] a.mode = "draw-edge" ->
                IF a.isDrawing THEN updateEdgePreview(a, p) ELSE a
         [] OTHER -> a

(***************************************************************************)
(* DrawingManager: pointer-up, double click and keys.                      *)
(***************************************************************************)
finishRectangle(s, p) ==
    LET slot == getNextAvailableZoneSlot(s.zones)
        x1 == Snap(s.startPoint[1], ZoneGrid)
        y1 == Snap(s.startPoint[2], ZoneGrid)
        x2 == Snap(p[1], ZoneGrid)
        y2 == Snap(p[2], ZoneGrid)
        zone == At(s.zones, slot)
        made == [zone EXCEPT !.enabled = TRUE, !.shapeType = "rectangle",
                             !.x1 = Min(x1, x2), !.y1 = Min(y1, y2),
                             !.x2 = Max(x1, x2), !.y2 = Max(y1, y2),
                             !.vertices = <<>>,
                             !.zoneType = IF @ = "" THEN "detection" ELSE @]
        a == resetDrawingState([s EXCEPT !.zones[slot + 1] = made])
    IN IF slot = -1 THEN s
       ELSE IF Abs(x2 - x1) < MinZoneSize \/ Abs(y2 - y1) < MinZoneSize
       THEN resetDrawingState(onError(s, MsgZoneTooSmall))
       ELSE onZoneCreated(setMode([a EXCEPT !.selectedZoneIndex = slot], "select"), slot)

completeEdgeDrawing(s) ==
    LET x1 == Snap(s.startPoint[1], 100)
        y1 == Snap(s.startPoint[2], 100)
        x2 == Snap(s.currentPoint[1], 100)
        y2 == Snap(s.currentPoint[2], 100)
        edge == [x1 |-> Min(x1, x2), y1 |-> Min(y1, y2),
                 x2 |-> Max(x1, x2), y2 |-> Max(y1, y2)]
    IN IF s.startPoint = NoPoint \/ s.currentPoint = NoPoint THEN s
       ELSE IF Abs(x2 - x1) < MinEdgeSize \/ Abs(y2 - y1) < MinEdgeSize
       THEN resetDrawingState(s)
       ELSE onEdgePlaced(setMode(resetDrawingState([s EXCEPT !.edges = Append(@, edge)]),
                                 "select"))

handleMouseUp(s, c, button) ==
    LET p == toSensorCoords(c, s.mapRotation)
    IN IF button = 2 /\ s.isRightClickDragging
       THEN [s EXCEPT !.isRightClickDragging = FALSE, !.isDragging = FALSE]
       ELSE CASE s.mode = "select" ->
                     [s EXCEPT !.isDragging = FALSE, !.isRightClickDragging = FALSE,
                               !.selectedHandle = NoHandle]
              [] s.mode = "draw-rectangle" ->
                     IF s.isDrawing THEN finishRectangle(s, p) ELSE s
              [] s.mode = "draw-edge" ->
                     IF s.isDrawing THEN completeEdgeDrawing(s) ELSE s
              [] OTHER -> s

handleDoubleClick(s) ==
    IF s.mode = "draw-polygon" /\ Len(s.polygonVertices) >= 3 THEN finishPolygon(s) ELSE s

\* The four delete operations: the callback runs before the splice.
deleteSelectedFurniture(s) ==
    LET i == s.selectedFurnitureIndex
        a == onFurnitureDeleted(s, i)
    IN IF i = NullIndex THEN s
       ELSE [a EXCEPT !.furniture = Splice(@, i), !.selectedFurnitureIndex = NullIndex]

deleteSelectedEntrance(s) ==
    LET i == s.selectedEntranceIndex
        a == onEntranceDeleted(s, i)
    IN IF i = NullIndex THEN s
       ELSE [a EXCEPT !.entrances = Splice(@, i), !.selectedEntranceIndex = NullIndex]

deleteSelectedEdge(s) ==
    LET i == s.selectedEdgeIndex
        a == onEdgeDeleted(s, i)
    IN IF i = NullIndex THEN s
       ELSE [a EXCEPT !.edges = Splice(@, i), !.selectedEdgeIndex = NullIndex]

\* A faulty variant of deleteSelectedZone that keeps the zone selected.
deleteSelectedZoneKeepsIndex(s) ==
    LET i == s.selectedZoneIndex
        a == [s EXCEPT !.zones[i + 1].enabled = FALSE,
                       !.zones[i + 1].shapeType = "rectangle",
                       !.zones[i + 1].vertices = <<>>]
    IN IF i = NullIndex THEN s ELSE onZoneDeleted(a, i)

\* A faulty variant of deleteSelectedZone that also resets the zone type.
deleteSelectedZoneResetsType(s) ==
    LET i == s.selectedZoneIndex
        a == [s EXCEPT !.zones[i + 1].enabled = FALSE,
                       !.zones[i + 1].shapeType = "rectangle",
                       !.zones[i + 1].vertices = <<>>,
                       !.zones[i + 1].zoneType = "detection"]
    IN IF i = NullIndex THEN s
       ELSE [onZoneDeleted(a, i) EXCEPT !.selectedZoneIndex = NullIndex]

deleteSelectedZone(s) ==
    LET i == s.selectedZoneIndex
        a == [s EXCEPT !.zones[i + 1].enabled = FALSE,
                       !.zones[i + 1].shapeType = "rectangle",
                       !.zones[i + 1].vertices = <<>>]
    IN IF i = NullIndex THEN s
       ELSE [onZoneDeleted(a, i) EXCEPT !.selectedZoneIndex = NullIndex]

\* handleKeyDown: Escape aborts; Delete and Backspace delete the selected
\* entrance, furniture or zone (there is no branch for a selected edge).
handleKeyDown(s, key) ==
    LET a == IF key = "Escape" THEN setMode(resetDrawingState(s), "select") ELSE s
    IN IF key \in {"Delete", "Backspace"} /\ a.mode = "select"
       THEN IF a.selectedEntranceIndex # NullIndex THEN deleteSelectedEntrance(a)
            ELSE IF a.selectedFurnitureIndex # NullIndex THEN deleteSelectedFurniture(a)
            ELSE IF a.selectedZoneIndex # NullIndex THEN deleteSelectedZone(a)
            ELSE a
       ELSE a

\* A faulty variant of rotateSelectedEntrance that turns by a quarter.
rotateSelectedEntranceQuarter(s) ==
    LET i == s.selectedEntranceIndex
    IN IF i = NullIndex THEN s
       ELSE IF ~Defined(s.entrances, i) THEN Throw(s)
       ELSE onEntranceUpdate([s EXCEPT !.entrances[i + 1].direction = (@ + 90) % 360], i)

rotateSelectedEntrance(s) ==
    LET i == s.selectedEntranceIndex
    IN IF i = NullIndex THEN s
       ELSE IF ~Defined(s.entrances, i) THEN Throw(s)
       ELSE onEntranceUpdate([s EXCEPT !.entrances[i + 1].direction = (@ + RotateStep) % 360], i)

\* startMoveMode: the furniture and the entrance are dereferenced without
\* a guard; the mode field is left as it is.
startMoveMode(s, itemType, itemIndex) ==
    LET a == [s EXCEPT !.isMoving = TRUE, !.movingItemType = itemType,
                       !.movingItemIndex = itemIndex]
        b == [a EXCEPT !.dragOffset = <<0, 0>>]
    IN CASE itemType = "zone" ->
                IF Defined(s.zones, itemIndex) THEN onModeChange(b, "moving") ELSE Throw(a)
         [] itemType = "furniture" ->
                IF Defined(s.furniture, itemIndex) THEN onModeChange(b, "moving") ELSE Throw(a)
         [] itemType = "entrance" ->
                IF Defined(s.entrances, itemIndex) THEN onModeChange(b, "moving") ELSE Throw(a)
         [] OTHER -> onModeChange(a, "moving")

(***************************************************************************)
(* The page script: toolbar, shape-action buttons, zone cards, rooms.      *)
(***************************************************************************)
ToolModes == {"select", "draw-rectangle", "draw-polygon", "place-furniture",
              "place-entrance", "draw-edge"}
FurnitureTypes == {"chair"}
Keys == {"Escape", "Delete", "Backspace"}
Buttons == {0, 2}

toolButtonClick(s, m, f) ==
    IF m = "place-furniture" /\ f # ""
    THEN setMode([s EXCEPT !.placingFurniture = f], "place-furniture")
    ELSE setMode([s EXCEPT !.placingFurniture = ""], m)

moveSelectedShape(s) ==
    IF s.selectedItemType # "" /\ s.selectedItemIndex # NullIndex
    THEN startMoveMode(s, s.selectedItemType, s.selectedItemIndex)
    ELSE s

\* A faulty variant of rotateSelectedShape that ignores the command for a
\* zone without telling the user.
rotateSelectedShapeSilent(s) ==
    LET i == s.selectedItemIndex
    IN CASE s.selectedItemType = "furniture" /\ i # NullIndex ->
                IF Defined(s.furniture, i)
                THEN [s EXCEPT !.furniture[i + 1].rotation = (@ + RotateStep) % 360]
                ELSE s
         [] s.selectedItemType = "entrance" /\ i # NullIndex -> rotateSelectedEntrance(s)
         [] OTHER -> s

\* rotateSelectedShape: a zone is refused with an alert.
rotateSelectedShape(s) ==
    LET i == s.selectedItemIndex
    IN CASE s.selectedItemType = "zone" /\ i # NullIndex -> Emit(s, <<"alert", MsgZoneRotation>>)
         [] s.selectedItemType = "furniture" /\ i # NullIndex ->
                IF Defined(s.furniture, i)
                THEN [s EXCEPT !.furniture[i + 1].rotation = (@ + RotateStep) % 360]
                ELSE s
         [] s.selectedItemType = "entrance" /\ i # NullIndex -> rotateSelectedEntrance(s)
         [] OTHER -> s

\* resizeSelectedShape(scaleFactor): furniture and entrances are scaled and
\* clamped to [MIN_SIZE, MAX_SIZE]; an edge is scaled about its centre and
\* clamped to the sensor range.
Scaled(size, scaleFactor) == MathRound[Mul[NumberOf[size], scaleFactor]]

ClampSize(size) == Max(MIN_SIZE, Min(MAX_SIZE, size))

ScaledEdge(edge, scaleFactor) ==
    LET two == NumberOf[2]
        midX == Div[NumberOf[edge.x1 + edge.x2], two]
        midY == Div[NumberOf[edge.y1 + edge.y2], two]
        halfWidth == Mul[Div[NumberOf[Abs(edge.x2 - edge.x1)], two], scaleFactor]
        halfHeight == Mul[Div[NumberOf[Abs(edge.y2 - edge.y1)], two], scaleFactor]
    IN [x1 |-> Clamp(X_MIN, X_MAX, MathRound[Sub[midX, halfWidth]]),
        x2 |-> Clamp(X_MIN, X_MAX, MathRound[Add[midX, halfWidth]]),
        y1 |-> Clamp(Y_MIN, Y_MAX, MathRound[Sub[midY, halfHeight]]),
        y2 |-> Clamp(Y_MIN, Y_MAX, MathRound[Add[midY, halfHeight]])]

resizeSelectedShape(s, scaleFactor) ==
    LET i == s.selectedItemIndex
    IN CASE s.selectedItemType = "furniture" /\ i # NullIndex ->
                IF Defined(s.furniture, i)
                THEN [s EXCEPT !.furniture[i + 1].width = ClampSize(Scaled(@, scaleFactor)),
                               !.furniture[i + 1].height = ClampSize(Scaled(@, scaleFactor))]
                ELSE s
         [] s.selectedItemType = "entrance" /\ i # NullIndex ->
                IF Defined(s.entrances, i)
                THEN [s EXCEPT !.entrances[i + 1].width =
                          ClampSize(Scaled(IF @ = 0 THEN DefaultEntranceWidth ELSE @,
                                           scaleFactor))]
                ELSE s
         [] s.selectedItemType = "edge" /\ i # NullIndex ->
                IF Defined(s.edges, i)
                THEN [s EXCEPT !.edges[i + 1] = ScaledEdge(@, scaleFactor)]
                ELSE s
         [] OTHER -> s

deleteSelectedShape(s) ==
    LET i == s.selectedItemIndex
    IN CASE s.selectedItemType = "zone" /\ i # NullIndex -> deleteSelectedZone(s)
         [] s.selectedItemType = "furniture" /\ i # NullIndex -> deleteSelectedFurniture(s)
         [] s.selectedItemType = "entrance" /\ i # NullIndex -> deleteSelectedEntrance(s)
         [] s.selectedItemType = "edge" /\ i # NullIndex -> deleteSelectedEdge(s)
         [] OTHER -> s

finishPlacement(s) == IF s.isMoving THEN finishMoveMode(s) ELSE setMode(s, "select")

rotateMap(s) == [s EXCEPT !.mapRotation = (@ + 90) % 360]

\* A click on the card of zone slot index.
zoneCardClick(s, index) ==
    LET a == setMode(s, "select")
        b == clearOtherSelections([a EXCEPT !.selectedZoneIndex = index], "zone")
    IN IF At(s.zones, index).enabled
       THEN [b EXCEPT !.selectedItemType = "zone", !.selectedItemIndex = index]
       ELSE s

\* The zone type selector of a zone card: the change listener stores the
\* chosen type in the slot.
ZoneTypes == {"detection", "interference"}
zoneTypeChange(s, index, value) == [s EXCEPT !.zones[index + 1].zoneType = value]

\* StorageManager.getDefaultZoneConfig and getDefaultAnnotations.
DefaultZone ==
    [enabled |-> FALSE, shapeType |-> "rectangle", x1 |-> -1500, y1 |-> 0,
     x2 |-> 1500, y2 |-> 3000, vertices |-> <<>>, zoneType |-> "detection"]
getDefaultZoneConfig == [i \in 1..ZoneSlots |-> DefaultZone]

Rect(x1, y1, x2, y2) ==
    [DefaultZone EXCEPT !.enabled = TRUE, !.x1 = x1, !.y1 = y1, !.x2 = x2, !.y2 = y2]
Poly(vs) ==
    [DefaultZone EXCEPT !.enabled = TRUE, !.shapeType = "polygon", !.vertices = vs,
                        !.x1 = MinOf(VertexXs(vs)), !.y1 = MinOf(VertexYs(vs)),
                        !.x2 = MaxOf(VertexXs(vs)), !.y2 = MaxOf(VertexYs(vs))]

\* The room configurations in storage, as earlier sessions saved them:
\*  1  three zones (slots 0-2; slot 0 a 300 mm zone as the move mode leaves
\*     it, centred on the grid point (-100, 1900); slot 2 a polygon) and a
\*     chair;
\*  2  all five zone slots drawn, saved before the map rotation was stored;
\*  3  no zone, an entrance and an edge.
\* mapRotation -1 stands for a configuration without the field.
SavedConfigs ==
    << [zones |-> <<Rect(-250, 1750, 50, 2050), Rect(-2500, 4000, -1500, 5000),
                    Poly(<<<<1500, 4000>>, <<2500, 4000>>, <<2000, 5000>>>>),
                    DefaultZone, DefaultZone>>,
        furniture |-> <<[type |-> "chair", x |-> 400, y |-> 2400, rotation |-> 0,
                         width |-> 700, height |-> 700]>>,
        entrances |-> <<>>, edges |-> <<>>, mapRotation |-> 0],
       [zones |-> <<Rect(-500, 1500, 500, 2500), Rect(-2500, 4000, -1500, 5000),
                    Poly(<<<<1500, 4000>>, <<2500, 4000>>, <<2000, 5000>>>>),
                    Rect(-2500, 500, -1500, 1000), Rect(2000, 500, 2500, 1000)>>,
        furniture |-> <<>>, entrances |-> <<>>, edges |-> <<>>, mapRotation |-> -1],
       [zones |-> getDefaultZoneConfig,
        furniture |-> <<>>,
        entrances |-> <<[x |-> 1500, y |-> 3000, direction |-> 0, width |-> 0]>>,
        edges |-> <<[x1 |-> -500, y1 |-> 1500, x2 |-> 500, y2 |-> 2500]>>,
        mapRotation |-> 0] >>

\* loadSensorConfig(room): room 0 has no stored configuration.
loadSensorConfig(s, room) ==
    LET config == SavedConfigs[room]
    IN IF room = 0
       THEN [s EXCEPT !.zones = getDefaultZoneConfig, !.furniture = <<>>,
                      !.entrances = <<>>, !.edges = <<>>, !.mapRotation = 0]
       ELSE [s EXCEPT !.zones = config.zones, !.furniture = config.furniture,
                      !.entrances = config.entrances, !.edges = config.edges,
                      !.mapRotation = IF config.mapRotation # -1
                                      THEN config.mapRotation ELSE @]

resetZones(s) ==
    [s EXCEPT !.zones = getDefaultZoneConfig, !.furniture = <<>>,
              !.entrances = <<>>, !.edges = <<>>]

\* clearZone: the slot is replaced by a record without shapeType, vertices
\* and zoneType; the DrawingManager is not told.
clearZone(s, zoneIndex) ==
    [s EXCEPT !.zones[zoneIndex + 1] =
                  [enabled |-> FALSE, shapeType |-> "", x1 |-> 0, y1 |-> 0,
                   x2 |-> 0, y2 |-> 0, vertices |-> <<>>, zoneType |-> ""]]

(***************************************************************************)
(* The state machine.  Pointer events arrive at the pixels of Pixels.      *)
(***************************************************************************)
Pixels == {<<300, 400>>, <<450, 300>>, <<305, 395>>}
Rooms == 0..Len(SavedConfigs)

\* The state after construction; init() has loaded the room, if stored.
Constructed ==
    [mode |-> "select", isDrawing |-> FALSE, isDragging |-> FALSE,
     isMoving |-> FALSE, movingItemType |-> "", movingItemIndex |-> NullIndex,
     startPoint |-> NoPoint, currentPoint |-> NoPoint, polygonVertices |-> <<>>,
     previewRect |-> <<>>, previewPolygon |-> <<>>,
     selectedZoneIndex |-> NullIndex, selectedFurnitureIndex |-> NullIndex,
     selectedEntranceIndex |-> NullIndex, selectedEdgeIndex |-> NullIndex,
     selectedHandle |-> NoHandle, dragOffset |-> <<0, 0>>,
     isRightClickDragging |-> FALSE,
     zones |-> getDefaultZoneConfig, furniture |-> <<>>, entrances |-> <<>>,
     edges |-> <<>>, mapRotation |-> 0, placingFurniture |-> "",
     selectedItemType |-> "", selectedItemIndex |-> NullIndex,
     drawingPreview |-> <<>>, events |-> <<>>, threw |-> FALSE]

NoOp == [name |-> "init", arg |-> ""]

Started(room) ==
    LET t == loadSensorConfig(Constructed, room)
    IN /\ mode = t.mode /\ isDrawing = t.isDrawing /\ isDragging = t.isDragging
       /\ isMoving = t.isMoving /\ movingItemType = t.movingItemType
       /\ movingItemIndex = t.movingItemIndex /\ startPoint = t.startPoint
       /\ currentPoint = t.currentPoint /\ polygonVertices = t.polygonVertices
       /\ previewRect = t.previewRect /\ previewPolygon = t.previewPolygon
       /\ selectedZoneIndex = t.selectedZoneIndex
       /\ selectedFurnitureIndex = t.selectedFurnitureIndex
       /\ selectedEntranceIndex = t.selectedEntranceIndex
       /\ selectedEdgeIndex = t.selectedEdgeIndex
       /\ selectedHandle = t.selectedHandle /\ dragOffset = t.dragOffset
       /\ isRightClickDragging = t.isRightClickDragging
       /\ zones = t.zones /\ furniture = t.furniture /\ entrances = t.entrances
       /\ edges = t.edges /\ mapRotation = t.mapRotation
       /\ placingFurniture = t.placingFurniture
       /\ selectedItemType = t.selectedItemType
       /\ selectedItemIndex = t.selectedItemIndex
       /\ drawingPreview = t.drawingPreview
       /\ events = <<>> /\ threw = FALSE /\ op = NoOp /\ steps = 0

Init == limit = MaxSteps /\ \E room \in Rooms : Started(room)

\* One handler runs to its end (or to its exception) and leaves state t.
Handled(t, name, arg) ==
    /\ steps < limit
    /\ Len(t.furniture) <= MaxFurniture /\ Len(t.entrances) <= MaxEntrances
    /\ Len(t.edges) <= MaxEdges /\ Len(t.polygonVertices) <= MaxVertices
    /\ Becomes(t)
    /\ op' = [name |-> name, arg |-> arg]
    /\ steps' = steps + 1
    /\ limit' = limit

ButtonName(button) == IF button = 2 THEN "right" ELSE "left"

MouseDown(c, button) == Handled(handleMouseDown(St, c, button), "handleMouseDown", ButtonName(button))
MouseMove(c) == Handled(handleMouseMove(St, c), "handleMouseMove", "")
MouseUp(c, button) == Handled(handleMouseUp(St, c, button), "handleMouseUp", ButtonName(button))
DoubleClick == Handled(handleDoubleClick(St), "handleDoubleClick", "")
KeyDown(key) == Handled(handleKeyDown(St, key), "handleKeyDown", key)
ToolButtonClick(m, f) == Handled(toolButtonClick(St, m, f), "toolButtonClick", m)
MoveSelectedShape == Handled(moveSelectedShape(St), "moveSelectedShape", "")
RotateSelectedShape == Handled(rotateSelectedShape(St), "rotateSelectedShape", "")
DeleteSelectedShape == Handled(deleteSelectedShape(St), "deleteSelectedShape", "")
FinishPlacement == Handled(finishPlacement(St), "finishPlacement", "")
RotateMap == Handled(rotateMap(St), "rotateMap", "")
\* The increase and decrease buttons: scale factors 1.1 and 0.9.
ResizeSelectedShape(tenths) ==
    Handled(resizeSelectedShape(St, Div[NumberOf[tenths], NumberOf[10]]),
            "resizeSelectedShape", IF tenths > 10 THEN "increase" ELSE "decrease")
ZoneCardClick(index) == Handled(zoneCardClick(St, index), "zoneCardClick", "")
LoadSensorConfig(room) == Handled(loadSensorConfig(St, room), "loadSensorConfig", "")
ResetZones == Handled(resetZones(St), "resetZones", "")
ClearZone(index) == Handled(clearZone(St, index), "clearZone", "")

Next ==
    \/ \E c \in Pixels, button \in Buttons : MouseDown(c, button)
    \/ \E c \in Pixels : MouseMove(c)
    \/ \E c \in Pixels, button \in Buttons : MouseUp(c, button)
    \/ DoubleClick
    \/ \E key \in Keys : KeyDown(key)
    \/ \E m \in ToolModes \ {"place-furniture"} : ToolButtonClick(m, "")
    \/ \E f \in FurnitureTypes : ToolButtonClick("place-furniture", f)
    \/ MoveSelectedShape
    \/ RotateSelectedShape
    \/ DeleteSelectedShape
    \/ FinishPlacement
    \/ RotateMap
    \/ \E index \in 0..(ZoneSlots - 1) : ZoneCardClick(index)
    \/ \E room \in Rooms : LoadSensorConfig(room)
    \/ ResetZones
    \/ \E index \in 0..(ZoneSlots - 1) : ClearZone(index)

Spec == Init /\ [][Next]_vars

\* The same program under a user who only draws and drags with the left
\* button, picks zones from their cards and changes room: fewer handlers,
\* longer gestures.
InitGesture == limit = MaxGestureSteps /\ \E room \in Rooms : Started(room)

NextGesture ==
    \/ \E c \in Pixels : MouseDown(c, 0)
    \/ \E c \in Pixels : MouseMove(c)
    \/ \E c \in Pixels : MouseUp(c, 0)
    \/ \E m \in {"draw-rectangle", "draw-polygon"} : ToolButtonClick(m, "")
    \/ \E index \in 0..(ZoneSlots - 1) : ZoneCardClick(index)
    \/ \E room \in Rooms : LoadSensorConfig(room)

SpecGesture == InitGesture /\ [][NextGesture]_vars

\* The same program under a user who works on the furniture of the stored
\* room with the left button and the rotate command; the pointer also
\* visits the centre of the stored chair and a point 50 mm from it.
ResizePixels == Pixels \cup {<<340, 360>>, <<345, 360>>}

InitResize == limit = MaxResizeSteps /\ Started(1)

NextResize ==
    \/ \E c \in ResizePixels : MouseDown(c, 0)
    \/ \E c \in ResizePixels : MouseMove(c)
    \/ \E c \in ResizePixels : MouseUp(c, 0)
    \/ RotateSelectedShape

SpecResize == InitResize /\ [][NextResize]_vars

\* The conversions applied to points, at each map rotation: a point of
\* sensor space or of the canvas is converted, and the image is converted
\* back.  startPoint holds the point and currentPoint the latest image, both
\* as pairs of Numbers; a behaviour converts one point.  A coordinate is a
\* whole number or a third of one.
CoordPixels == {<<x, y>> : x \in {0, 150, 300, 455, 600}, y \in {0, 145, 300, 600}}
SensorPoints == {<<x, y>> : x \in {X_MIN, -1550, 0, 10, X_MAX}, y \in {Y_MIN, 2000, 4990, Y_MAX}}
Fractions == {1, 3}

Fraction(p, k) == <<Div[NumberOf[p[1]], NumberOf[k]], Div[NumberOf[p[2]], NumberOf[k]]>>

Converted(from, to, name, arg) ==
    Handled([St EXCEPT !.startPoint = from, !.currentPoint = to, !.events = <<>>],
            name, arg)

ToCanvasCoords(p, k) ==
    /\ startPoint = NoPoint
    /\ Converted(Fraction(p, k), toCanvasCoordsN(Fraction(p, k), mapRotation),
              "toCanvasCoords", "point")

ToSensorCoords(c, k) ==
    /\ startPoint = NoPoint
    /\ Converted(Fraction(c, k), toSensorCoordsN(Fraction(c, k), mapRotation),
              "toSensorCoords", "point")

BackToSensorCoords ==
    /\ op = [name |-> "toCanvasCoords", arg |-> "point"]
    /\ Converted(startPoint, toSensorCoordsN(currentPoint, mapRotation),
                 "toSensorCoords", "image")

BackToCanvasCoords ==
    /\ op = [name |-> "toSensorCoords", arg |-> "point"]
    /\ Converted(startPoint, toCanvasCoordsN(currentPoint, mapRotation),
                 "toCanvasCoords", "image")

InitCoords == limit = MaxCoordSteps /\ Started(0)

NextCoords ==
    \/ RotateMap
    \/ \E p \in SensorPoints, k \in Fractions : ToCanvasCoords(p, k)
    \/ \E c \in CoordPixels, k \in Fractions : ToSensorCoords(c, k)
    \/ BackToSensorCoords
    \/ BackToCanvasCoords

SpecCoords == InitCoords /\ [][NextCoords]_vars

\* The radar view drawing one live target per frame while the user turns
\* the map: startPoint holds the target's sensor point and currentPoint the
\* position at which drawTarget puts its circle.
DrawTarget(p) == Converted(p, TargetPosition(p, mapRotation), "drawTarget", "")

InitTarget == limit = MaxTargetSteps /\ Started(0)

NextTarget ==
    \/ RotateMap
    \/ \E p \in SensorPoints : DrawTarget(p)

SpecTarget == InitTarget /\ [][NextTarget]_vars

\* The stored rooms under a user who selects the chair or the entrance,
\* places further chairs, turns the map and presses the rotate button.
RotatePixels == {<<340, 360>>, <<450, 300>>}

InitRotate == limit = MaxRotateSteps /\ (Started(1) \/ Started(3))

NextRotate ==
    \/ \E c \in RotatePixels : MouseDown(c, 0)
    \/ RotateSelectedShape
    \/ RotateMap
    \/ ToolButtonClick("place-furniture", "chair")
    \/ KeyDown("Escape")

SpecRotate == InitRotate /\ [][NextRotate]_vars

\* A user drawing polygons in the empty room and in the room with two free
\* slots.  A double-click reaches the handlers as the browser delivers it:
\* mousedown, mouseup, mousedown, mouseup and dblclick at one point.
PolygonPixels == {<<300, 400>>, <<450, 300>>, <<300, 200>>}

DoubleClickAt(c) ==
    \E down1 \in {handleMouseDown(St, c, 0)} :
        \E up1 \in {handleMouseUp(down1, c, 0)} :
            \E down2 \in {handleMouseDown(up1, c, 0)} :
                \E up2 \in {handleMouseUp(down2, c, 0)} :
                    Handled(handleDoubleClick(up2), "doubleClickAt", "")

InitPolygon == limit = MaxPolygonSteps /\ (Started(0) \/ Started(1))

NextPolygon ==
    \/ ToolButtonClick("draw-polygon", "")
    \/ \E c \in PolygonPixels : MouseDown(c, 0)
    \/ \E c \in PolygonPixels : MouseUp(c, 0)
    \/ \E c \in PolygonPixels : DoubleClickAt(c)

SpecPolygon == InitPolygon /\ [][NextPolygon]_vars

\* The stored rooms under a user who places a second entrance, selects a
\* shape, issues the move command and presses keys while the shape follows
\* the pointer.
InitMoving == limit = MaxMovingSteps /\ (Started(1) \/ Started(3))

NextMoving ==
    \/ \E c \in Pixels : MouseDown(c, 0)
    \/ \E c \in Pixels : MouseMove(c)
    \/ ToolButtonClick("place-entrance", "")
    \/ ZoneCardClick(0)
    \/ MoveSelectedShape
    \/ \E key \in Keys : KeyDown(key)

SpecMoving == InitMoving /\ [][NextMoving]_vars

\* A user who places chairs and television sets, turns the map, selects and
\* rotates an item, presses the left button on one of its corner handles
\* and moves the pointer to the position of that handle.
CornerPixels == {<<300, 400>>, <<450, 300>>}

ResizeAtCorner(type) ==
    /\ mode = "select" /\ ~isMoving /\ ~isDragging
    /\ Defined(furniture, selectedFurnitureIndex)
    /\ Handled(resizeFurnitureAtCorner(St, type), "resizeFurnitureAtCorner", type)

InitCorner == limit = MaxCornerSteps /\ (Started(0) \/ Started(1))

NextCorner ==
    \/ \E c \in CornerPixels \cup {<<340, 360>>} : MouseDown(c, 0)
    \/ \E f \in {"chair", "tv"} : ToolButtonClick("place-furniture", f)
    \/ KeyDown("Escape")
    \/ RotateMap
    \/ RotateSelectedShape
    \/ \E type \in CornerTypes : ResizeAtCorner(type)

SpecCorner == InitCorner /\ [][NextCorner]_vars

\* The stored rooms under a user who works on zones with the pointer, the
\* keyboard, the toolbar and the move command: presses, moves, releases,
\* double clicks, keys, tool buttons and the move button.
ZonePixels == Pixels \cup {<<275, 395>>}

InitZone == limit = MaxZoneSteps /\ (Started(1) \/ Started(2))

NextZone ==
    \/ \E c \in ZonePixels, button \in Buttons : MouseDown(c, button)
    \/ \E c \in ZonePixels : MouseMove(c)
    \/ \E c \in ZonePixels, button \in Buttons : MouseUp(c, button)
    \/ DoubleClick
    \/ \E key \in Keys : KeyDown(key)
    \/ \E m \in {"select", "draw-rectangle", "draw-polygon"} : ToolButtonClick(m, "")
    \/ MoveSelectedShape

SpecZone == InitZone /\ [][NextZone]_vars

\* The first stored room under a user who chooses the type of the first
\* zone, deletes it, clears the second zone and draws rectangles and
\* polygons into the free slots.
ZoneTypeChange(index, value) ==
    Handled(zoneTypeChange(St, index, value), "zoneTypeChange", value)

InitType == limit = MaxTypeSteps /\ Started(1)

NextType ==
    \/ \E c \in PolygonPixels : MouseDown(c, 0)
    \/ \E c \in PolygonPixels : MouseMove(c)
    \/ \E c \in PolygonPixels : MouseUp(c, 0)
    \/ DoubleClick
    \/ KeyDown("Delete")
    \/ ClearZone(1)
    \/ \E m \in {"draw-rectangle", "draw-polygon"} : ToolButtonClick(m, "")
    \/ \E value \in ZoneTypes : ZoneTypeChange(0, value)

SpecType == InitType /\ [][NextType]_vars

\* The same program under a user who draws edges and drags the entrance of
\* the stored room with the left button; the pointer visits points left
\* and right of the sensor axis that lie halfway between grid lines.
SnapPixels == {<<295, 400>>, <<305, 395>>, <<275, 345>>, <<450, 300>>}

InitSnap == limit = MaxSnapSteps /\ Started(3)

NextSnap ==
    \/ ToolButtonClick("draw-edge", "")
    \/ \E c \in SnapPixels : MouseDown(c, 0)
    \/ \E c \in SnapPixels : MouseMove(c)
    \/ \E c \in SnapPixels : MouseUp(c, 0)

SpecSnap == InitSnap /\ [][NextSnap]_vars

\* The same program under a user who picks the first zone from its card
\* or an edge with a click and drags bodies and resize handles with the
\* left button, in a stored room with zones or in the one with an edge; the
\* pointer also visits sensor (-500, 1500), a corner of the stored edge, and
\* points inside the first zone and inside the edge, near the far corner.
HandlePixels == Pixels \cup {<<250, 450>>, <<280, 420>>, <<350, 350>>}

InitHandles == limit = MaxHandleSteps /\ (Started(1) \/ Started(3))

NextHandles ==
    \/ ZoneCardClick(0)
    \/ \E c \in HandlePixels : MouseDown(c, 0)
    \/ \E c \in HandlePixels : MouseMove(c)
    \/ \E c \in HandlePixels : MouseUp(c, 0)

SpecHandles == InitHandles /\ [][NextHandles]_vars

\* The same program under a user who selects the chair, the entrance or the
\* edge of a stored room with the left button, drags, and uses the increase
\* and decrease buttons; the pointer also visits the centre of the chair and
\* the left border of the sensor range.
ScalePixels == Pixels \cup {<<340, 360>>, <<0, 360>>}

InitScale == limit = MaxScaleSteps /\ (Started(1) \/ Started(3))

NextScale ==
    \/ \E c \in ScalePixels : MouseDown(c, 0)
    \/ \E c \in ScalePixels : MouseMove(c)
    \/ \E c \in ScalePixels : MouseUp(c, 0)
    \/ \E tenths \in {9, 11} : ResizeSelectedShape(tenths)

SpecScale == InitScale /\ [][NextScale]_vars

\* The same program under a user who draws rectangles and edges, places
\* entrances, drags bodies and handles with the left button and moves the
\* selected shape in moving mode, in the stored rooms; the pointer also
\* visits two opposite corners of the canvas.
BoundsPixels == Pixels \cup {<<0, 0>>, <<600, 600>>, <<250, 450>>}

InitBounds == limit = MaxBoundsSteps /\ (Started(1) \/ Started(3))

NextBounds ==
    \/ \E c \in BoundsPixels : MouseDown(c, 0)
    \/ \E c \in BoundsPixels : MouseMove(c)
    \/ \E c \in BoundsPixels : MouseUp(c, 0)
    \/ \E m \in {"draw-rectangle", "draw-edge", "place-entrance"} : ToolButtonClick(m, "")
    \/ ZoneCardClick(0)
    \/ MoveSelectedShape

SpecBounds == InitBounds /\ [][NextBounds]_vars

\* The same program under a user who lays shapes over one another, by
\* placing entrances and chairs, drawing edges and moving the fourth zone,
\* and then clicks on them with the left button in select mode.
InitSelect == limit = MaxSelectSteps /\ \E room \in Rooms : Started(room)

NextSelect ==
    \/ \E c \in Pixels : MouseDown(c, 0)
    \/ \E c \in Pixels : MouseMove(c)
    \/ \E c \in Pixels : MouseUp(c, 0)
    \/ \E m \in {"place-entrance", "draw-edge"} : ToolButtonClick(m, "")
    \/ ToolButtonClick("place-furniture", "chair")
    \/ ZoneCardClick(3)
    \/ MoveSelectedShape

SpecSelect == InitSelect /\ [][NextSelect]_vars

\* The same program under a user who resizes the first zone of the room
\* with five zones, or the edge of the room with an edge, with the left
\* button; both are the box (-500, 1500)-(500, 2500), and the pointer visits
\* its centre, its north and east midpoint handles, its south-west and
\* north-east corner handles and a point outside.
FramePixels == {<<300, 400>>, <<300, 350>>, <<350, 400>>, <<250, 450>>, <<350, 350>>,
                <<450, 300>>}

InitFrame == limit = MaxFrameSteps /\ (Started(2) \/ Started(3))

NextFrame ==
    \/ ZoneCardClick(0)
    \/ \E c \in FramePixels : MouseDown(c, 0)
    \/ \E c \in FramePixels : MouseMove(c)
    \/ \E c \in FramePixels : MouseUp(c, 0)

SpecFrame == InitFrame /\ [][NextFrame]_vars

\* The same program under a user who selects a zone, the chair, the
\* entrance or the edge of a stored room and drags it by its body, with the
\* left or with the right button; the pointer also visits the centre of the
\* chair and the left border of the sensor range.
DragPixels == Pixels \cup {<<340, 360>>, <<0, 360>>}

InitDrag == limit = MaxDragSteps /\ \E room \in Rooms \ {0} : Started(room)

NextDrag ==
    \/ ZoneCardClick(0)
    \/ \E c \in DragPixels, button \in Buttons : MouseDown(c, button)
    \/ \E c \in DragPixels : MouseMove(c)
    \/ \E c \in DragPixels, button \in Buttons : MouseUp(c, button)

SpecDrag == InitDrag /\ [][NextDrag]_vars

(***************************************************************************)
(* Properties.                                                             *)
(***************************************************************************)
SelectionKinds == {"zone", "furniture", "entrance", "edge"}
SelectionOf(kind) ==
    CASE kind = "zone" -> selectedZoneIndex
      [] kind = "furniture" -> selectedFurnitureIndex
      [] kind = "entrance" -> selectedEntranceIndex
      [] kind = "edge" -> selectedEdgeIndex
SelectedKinds == {kind \in SelectionKinds : SelectionOf(kind) # NullIndex}

\* The free slots among all the zone slots, and the lowest of them.
FreeSlots(zs) == {i \in 0..(ZoneSlots - 1) : ~At(zs, i).enabled}
FirstFree(zs) == CHOOSE i \in FreeSlots(zs) : \A j \in FreeSlots(zs) : i <= j

\* What a handler emitted.
Emitted(evs, name, arg) == \E k \in 1..Len(evs) : evs[k][1] = name /\ evs[k][2] = arg
Times(evs, name) == Cardinality({k \in 1..Len(evs) : evs[k][1] = name})

SnappedPoint(p) == <<Snap(p[1], ZoneGrid), Snap(p[2], ZoneGrid)>>
BigEnough(a, b) == Abs(b[1] - a[1]) >= MinZoneSize /\ Abs(b[2] - a[2]) >= MinZoneSize
ShapesUnchanged ==
    zones' = zones /\ furniture' = furniture /\ entrances' = entrances /\ edges' = edges

\* C1: in every reachable state at most one of selectedZoneIndex,
\* selectedFurnitureIndex, selectedEntranceIndex and selectedEdgeIndex is
\* non-null.
C1_AtMostOneSelection == Cardinality(SelectedKinds) <= 1

\* C2: a zone is created in the lowest-index slot, among all five, that was
\* not enabled, and the capacity error is raised only when all five slots
\* are enabled.
C2_LowestFreeOfFiveSlots ==
    [][/\ \A i \in 0..(ZoneSlots - 1) :
              Emitted(events', "onZoneCreated", i)
                  => FreeSlots(zones) # {} /\ i = FirstFree(zones)
       /\ Emitted(events', "onError", MsgMaxZones) => FreeSlots(zones) = {}]_vars

\* C3: in draw-rectangle mode with a free slot, a press at a starts the
\* gesture, and the release at b, both snapped dimensions being at least
\* 200 mm, leaves the first free slot an enabled rectangle with the min/max
\* corners of the snapped a and b, no vertices and zoneType 'detection' if
\* it had none; the mode is select, the new zone is the selected zone and
\* onZoneCreated was emitted once, for that slot.
C3_RectangleGesture ==
    [][\A c \in Pixels :
          LET p == toSensorCoords(c, mapRotation)
              a == SnappedPoint(startPoint)
              b == SnappedPoint(p)
              slot == FirstFree(zones)
              old == At(zones, slot)
              new == At(zones', slot)
          IN /\ (MouseDown(c, 0) /\ mode = "draw-rectangle" /\ FreeSlots(zones) # {})
                    => isDrawing' /\ startPoint' = p
             /\ (/\ MouseUp(c, 0) /\ mode = "draw-rectangle" /\ isDrawing
                 /\ FreeSlots(zones) # {} /\ BigEnough(a, b))
                    => /\ new.enabled /\ new.shapeType = "rectangle"
                       /\ new.vertices = <<>>
                       /\ new.x1 = Min(a[1], b[1]) /\ new.y1 = Min(a[2], b[2])
                       /\ new.x2 = Max(a[1], b[1]) /\ new.y2 = Max(a[2], b[2])
                       /\ new.zoneType = IF old.zoneType = "" THEN "detection"
                                         ELSE old.zoneType
                       /\ mode' = "select" /\ selectedZoneIndex' = slot
                       /\ Times(events', "onZoneCreated") = 1
                       /\ Emitted(events', "onZoneCreated", slot)]_vars

\* C4: a release in draw-rectangle mode with a snapped dimension below
\* 200 mm reports the too-small error exactly once, changes no zone slot
\* and discards the gesture; with both dimensions at least 200 mm (and a
\* slot to take the zone) the zone is committed and no error is reported.
C4_TooSmallRejected ==
    [][\A c \in Pixels :
          LET a == SnappedPoint(startPoint)
              b == SnappedPoint(toSensorCoords(c, mapRotation))
          IN (MouseUp(c, 0) /\ mode = "draw-rectangle" /\ isDrawing)
                 => IF ~BigEnough(a, b)
                    THEN /\ Times(events', "onError") = 1
                         /\ Emitted(events', "onError", MsgZoneTooSmall)
                         /\ zones' = zones
                         /\ ~isDrawing' /\ startPoint' = NoPoint
                         /\ previewRect' = <<>> /\ drawingPreview' = <<>>
                    ELSE FreeSlots(zones) # {}
                             => /\ Times(events', "onZoneCreated") = 1
                                /\ At(zones', FirstFree(zones)).enabled
                                /\ Times(events', "onError") = 0]_vars

\* C5: with all five zone slots enabled, a left press in draw-rectangle
\* mode or a click in draw-polygon mode reports the capacity error, starts
\* no gesture (isDrawing and the polygon vertices stay as they were) and
\* changes no shape.
C5_CapacityExceeded ==
    [][(/\ op'.name = "handleMouseDown" /\ op'.arg = "left"
        /\ mode \in {"draw-rectangle", "draw-polygon"}
        /\ FreeSlots(zones) = {})
           => /\ Emitted(events', "onError", MsgMaxZones)
              /\ Times(events', "onError") = 1
              /\ isDrawing' = isDrawing
              /\ polygonVertices' = polygonVertices
              /\ ShapesUnchanged]_vars

C5_Refused ==
    /\ op.name = "handleMouseDown" /\ op.arg = "left"
    /\ mode \in {"draw-rectangle", "draw-polygon"}
    /\ FreeSlots(zones) = {}
    /\ Emitted(events, "onError", MsgMaxZones)
    /\ ~isDrawing /\ polygonVertices = <<>>

\* C6: in draw-polygon mode with n >= 3 vertices placed and a free slot, a
\* click whose snapped position is less than 300 mm from the first vertex
\* adds no vertex and closes the polygon: the first free slot becomes an
\* enabled polygon whose vertices are the n placed points in order and
\* whose bounding box is their min/max, and the mode is select.
C6_PolygonClosedNearFirstVertex ==
    [][\A c \in Pixels :
          LET point == SnappedPoint(toSensorCoords(c, mapRotation))
              first == polygonVertices[1]
              dx == point[1] - first[1]
              dy == point[2] - first[2]
              vs == polygonVertices
              new == At(zones', FirstFree(zones))
          IN (/\ MouseDown(c, 0) /\ mode = "draw-polygon"
              /\ Len(polygonVertices) >= 3 /\ FreeSlots(zones) # {}
              /\ dx * dx + dy * dy < PolygonCloseDist * PolygonCloseDist)
                 => /\ new.enabled /\ new.shapeType = "polygon"
                    /\ new.vertices = vs
                    /\ new.x1 = MinOf(VertexXs(vs)) /\ new.y1 = MinOf(VertexYs(vs))
                    /\ new.x2 = MaxOf(VertexXs(vs)) /\ new.y2 = MaxOf(VertexYs(vs))
                    /\ mode' = "select"]_vars

\* C7: a pointer move that moves a zone (a body drag or the move mode, no
\* resize handle being held) leaves the zone with x1, x2 in [-3000, 3000],
\* y1, y2 in [0, 6000], and with the width and height it had.
C7_ZoneMoveKeepsSize ==
    [][(op'.name = "handleMouseMove" /\ selectedHandle = NoHandle)
           => \A i \in 1..ZoneSlots :
                  zones'[i] # zones[i]
                      => /\ zones'[i].x1 \in X_MIN..X_MAX /\ zones'[i].x2 \in X_MIN..X_MAX
                         /\ zones'[i].y1 \in Y_MIN..Y_MAX /\ zones'[i].y2 \in Y_MIN..Y_MAX
                         /\ Abs(zones'[i].x2 - zones'[i].x1) = Abs(zones[i].x2 - zones[i].x1)
                         /\ Abs(zones'[i].y2 - zones'[i].y1) = Abs(zones[i].y2 - zones[i].y1)]_vars

\* C8: in select mode, with one shape selected, Delete or Backspace removes
\* it: a zone is disabled, a furniture item, entrance or edge is spliced
\* out of its list; the selection index becomes null and the matching
\* deleted callback is emitted.
C8_DeleteKeyRemovesSelection ==
    [][(op'.name = "handleKeyDown" /\ op'.arg \in {"Delete", "Backspace"} /\ mode = "select")
           => /\ (SelectedKinds = {"zone"} /\ At(zones, selectedZoneIndex).enabled)
                     => /\ ~At(zones', selectedZoneIndex).enabled
                        /\ selectedZoneIndex' = NullIndex
                        /\ Emitted(events', "onZoneDeleted", selectedZoneIndex)
              /\ (SelectedKinds = {"furniture"} /\ Defined(furniture, selectedFurnitureIndex))
                     => /\ furniture' = Splice(furniture, selectedFurnitureIndex)
                        /\ selectedFurnitureIndex' = NullIndex
                        /\ Emitted(events', "onFurnitureDeleted", selectedFurnitureIndex)
              /\ (SelectedKinds = {"entrance"} /\ Defined(entrances, selectedEntranceIndex))
                     => /\ entrances' = Splice(entrances, selectedEntranceIndex)
                        /\ selectedEntranceIndex' = NullIndex
                        /\ Emitted(events', "onEntranceDeleted", selectedEntranceIndex)
              /\ (SelectedKinds = {"edge"} /\ Defined(edges, selectedEdgeIndex))
                     => /\ edges' = Splice(edges, selectedEdgeIndex)
                        /\ selectedEdgeIndex' = NullIndex
                        /\ Emitted(events', "onEdgeDeleted", selectedEdgeIndex)]_vars

\* C9: after an Escape key, whatever the state before, the mode is select,
\* isDrawing, isDragging and isMoving are false, there are no polygon
\* vertices, no selected handle and no preview, and onModeChange('select')
\* was emitted.
C9_EscapeAborts ==
    (op.name = "handleKeyDown" /\ op.arg = "Escape")
        => /\ mode = "select"
           /\ ~isDrawing /\ ~isDragging /\ ~isMoving
           /\ polygonVertices = <<>>
           /\ selectedHandle = NoHandle
           /\ previewRect = <<>> /\ previewPolygon = <<>> /\ drawingPreview = <<>>
           /\ Emitted(events, "onModeChange", "select")

\* Escape has been pressed in the middle of a right-button drag of a zone.
C9_EscapedMidDrag ==
    /\ op.name = "handleKeyDown" /\ op.arg = "Escape"
    /\ isRightClickDragging /\ selectedZoneIndex # NullIndex
    /\ mode = "select" /\ ~isDragging

\* C10: while the one selected index refers to no furniture item, entrance
\* or edge of the current lists, a pointer-down, pointer-move, key, rotate
\* or delete in select mode changes no shape and throws nothing.
StaleSelection ==
    \/ SelectedKinds = {"furniture"} /\ ~Defined(furniture, selectedFurnitureIndex)
    \/ SelectedKinds = {"entrance"} /\ ~Defined(entrances, selectedEntranceIndex)
    \/ SelectedKinds = {"edge"} /\ ~Defined(edges, selectedEdgeIndex)

C10_StaleSelectionIsNoOp ==
    [][(/\ StaleSelection /\ mode = "select"
        /\ op'.name \in {"handleMouseDown", "handleMouseMove", "handleKeyDown",
                         "rotateSelectedShape", "deleteSelectedShape"})
           => ~threw' /\ ShapesUnchanged]_vars

\* C11: a rotate command while a zone is the selected shape changes no field
\* of any zone, reports the unsupported operation exactly once, and leaves
\* the selection, the mode and all furniture, entrances and edges as they
\* were.
SelectionUnchanged ==
    /\ selectedZoneIndex' = selectedZoneIndex
    /\ selectedFurnitureIndex' = selectedFurnitureIndex
    /\ selectedEntranceIndex' = selectedEntranceIndex
    /\ selectedEdgeIndex' = selectedEdgeIndex
    /\ selectedItemType' = selectedItemType
    /\ selectedItemIndex' = selectedItemIndex

C11_ZoneRotationRefused ==
    [][(op'.name = "rotateSelectedShape" /\ SelectedKinds = {"zone"})
           => /\ Times(events', "alert") = 1
              /\ Emitted(events', "alert", MsgZoneRotation)
              /\ ShapesUnchanged
              /\ SelectionUnchanged
              /\ mode' = mode]_vars

C11_RotationRefused ==
    /\ op.name = "rotateSelectedShape"
    /\ SelectedKinds = {"zone"}
    /\ At(zones, selectedZoneIndex).enabled
    /\ events = <<<<"alert", MsgZoneRotation>>>>

\* C12: during a furniture corner-handle resize, after every pointer move
\* the width and the height of the furniture item are at least 200 mm and
\* multiples of 50 mm, wherever the pointer is and whatever the rotation.
FurnitureResizing ==
    /\ mode = "select" /\ isDragging /\ ~isMoving
    /\ selectedHandle # NoHandle /\ selectedHandle.itemType = "furniture"
    /\ Defined(furniture, selectedFurnitureIndex)

C12_FurnitureResizeFloor ==
    [][(op'.name = "handleMouseMove" /\ FurnitureResizing)
           => LET f == At(furniture', selectedFurnitureIndex)
              IN /\ f.width >= 200 /\ f.width % AnnotationGrid = 0
                 /\ f.height >= 200 /\ f.height % AnnotationGrid = 0]_vars

\* The pointer was moved to within 100 mm of the centre of a rotated item
\* whose corner handle is held, and the item has changed size.
C12_ResizedAtCentre ==
    /\ op.name = "handleMouseMove"
    /\ isDragging /\ selectedHandle # NoHandle /\ selectedHandle.itemType = "furniture"
    /\ Defined(furniture, selectedFurnitureIndex)
    /\ LET f == At(furniture, selectedFurnitureIndex)
       IN /\ Diagonal(f.rotation)
          /\ Abs(currentPoint[1] - f.x) + Abs(currentPoint[2] - f.y) < 100
          /\ f.width = 200 /\ f.height = 200

\* C13 as stated: at each of the four map rotations toSensorCoords and
\* toCanvasCoords are exact inverses of one another: the image of an image
\* is the point itself.
C13_ExactInverses == op.arg = "image" => currentPoint = startPoint

\* C13, amended: at each of the four map rotations toSensorCoords and
\* toCanvasCoords are inverses of one another within rounding: the image of
\* an image differs from the point by less than 2^-30 (millimetres or
\* pixels) in each coordinate.
Close(a, b) == LET d == Sub[a, b] IN d.m = <<>> \/ d.e + 53 <= -30

C13_InversesWithinRounding ==
    op.arg = "image" => /\ Close(currentPoint[1], startPoint[1])
                        /\ Close(currentPoint[2], startPoint[2])

\* A whole-millimetre sensor point was taken to the canvas and back on a map
\* turned by 270 degrees, and did not come back exactly.
C13_RoundedOnTurnedMap ==
    /\ op = [name |-> "toSensorCoords", arg |-> "image"] /\ mapRotation = 270
    /\ \E p \in SensorPoints : startPoint = Point(p)
    /\ currentPoint # startPoint

\* On the pointer positions of the other specifications no operation of the
\* conversion rounds, at any map rotation: the integer definitions give the
\* program's values there.
WholePixelsExact ==
    \A c \in Pixels \cup ResizePixels \cup SnapPixels \cup HandlePixels,
       r \in {0, 90, 180, 270} :
        toSensorCoordsN(Point(c), r) = Point(toSensorCoords(c, r))

\* C14: snapping to the 100 mm grid and to the 50 mm grid is idempotent, and
\* leaves a multiple of the grid size where it is, for negative as well as
\* positive coordinates; so the corners of an edge preview and the position
\* of a dragged entrance are fixed points of the snapping.
SnapInputs == (-160..160) \cup {X_MIN, X_MIN + 25, -2975, 2975, 5950, 5975, Y_MAX}
Grids == {ZoneGrid, AnnotationGrid}

C14_SnapIdempotent ==
    /\ \A g \in Grids, v \in SnapInputs :
           /\ Snap(Snap(v, g), g) = Snap(v, g)
           /\ v % g = 0 => Snap(v, g) = v
    /\ (previewRect # <<>> /\ previewRect[5] = 1)
           => /\ \A k \in 1..4 : Snap(previewRect[k], ZoneGrid) = previewRect[k]
              /\ op.name = "handleMouseMove"
                     => /\ previewRect[3] = Snap(currentPoint[1], ZoneGrid)
                        /\ previewRect[4] = Snap(currentPoint[2], ZoneGrid)
    /\ (op.name = "handleMouseMove" /\ isDragging /\ Defined(entrances, selectedEntranceIndex))
           => LET e == At(entrances, selectedEntranceIndex)
              IN Snap(e.x, AnnotationGrid) = e.x /\ Snap(e.y, AnnotationGrid) = e.y

\* An edge preview whose corner came from a pointer halfway between two
\* grid lines on the negative side: -50 snaps to 0.
C14_SnappedNegativeHalf ==
    /\ op.name = "handleMouseMove" /\ mode = "draw-edge"
    /\ previewRect # <<>> /\ previewRect[5] = 1
    /\ currentPoint[1] = -50 /\ previewRect[3] = 0

\* C15: whenever a created, placed, updated or deleted callback runs, the
\* registry already shows the finished mutation: the list the callback sees
\* is the list the handler leaves; in particular a deleted furniture item,
\* entrance or edge is gone from its list when its deleted callback runs.
ZoneCallbacks == {"onZoneCreated", "onZoneUpdate", "onZoneDeleted"}
FurnitureCallbacks == {"onFurniturePlaced", "onFurnitureUpdate", "onFurnitureDeleted"}
EntranceCallbacks == {"onEntrancePlaced", "onEntranceUpdate", "onEntranceDeleted"}
EdgeCallbacks == {"onEdgePlaced", "onEdgeDeleted"}

C15_CallbackSeesFinishedMutation ==
    [][\A k \in 1..Len(events') :
           LET e == events'[k]
           IN /\ e[1] \in ZoneCallbacks => e[3] = zones'
              /\ e[1] \in FurnitureCallbacks => e[3] = furniture'
              /\ e[1] \in EntranceCallbacks => e[3] = entrances'
              /\ e[1] \in EdgeCallbacks => e[3] = edges']_vars

\* C16: in every reachable state the bounding box of every enabled polygon
\* zone is the min/max of its vertices, at creation and after the zone has
\* been moved.
C16_PolygonBoundingBox ==
    \A i \in 1..ZoneSlots :
        (zones[i].enabled /\ zones[i].shapeType = "polygon")
            => /\ zones[i].x1 = MinOf(VertexXs(zones[i].vertices))
               /\ zones[i].y1 = MinOf(VertexYs(zones[i].vertices))
               /\ zones[i].x2 = MaxOf(VertexXs(zones[i].vertices))
               /\ zones[i].y2 = MaxOf(VertexYs(zones[i].vertices))

\* C17: in every reachable state every enabled zone and every edge has
\* x1 <= x2 and y1 <= y2, whatever path the pointer takes during a resize.
Normalized(box) == box.x1 <= box.x2 /\ box.y1 <= box.y2

C17_BoxesNormalized ==
    /\ \A i \in 1..ZoneSlots : zones[i].enabled => Normalized(zones[i])
    /\ \A i \in 1..Len(edges) : Normalized(edges[i])

\* C18: in every reachable state every enabled zone is at least 200 mm wide
\* and high and every edge at least 100 mm, whatever was drawn, moved or
\* resized.
Width(box) == box.x2 - box.x1
Height(box) == box.y2 - box.y1

C18_MinimumSizes ==
    /\ \A i \in 1..ZoneSlots :
           zones[i].enabled => /\ Width(zones[i]) >= MinZoneSize
                               /\ Height(zones[i]) >= MinZoneSize
    /\ \A i \in 1..Len(edges) : /\ Width(edges[i]) >= MinEdgeSize
                                /\ Height(edges[i]) >= MinEdgeSize

\* C19: in every reachable state the width and the height of every
\* furniture item lie in [200, 4000] mm, after a corner-handle drag as after
\* the increase and decrease commands, and so does the width of an entrance
\* once it is set.
InSizeRange(size) == MIN_SIZE <= size /\ size <= MAX_SIZE

C19_SizesInRange ==
    /\ \A i \in 1..Len(furniture) :
           InSizeRange(furniture[i].width) /\ InSizeRange(furniture[i].height)
    /\ \A i \in 1..Len(entrances) :
           entrances[i].width # 0 => InSizeRange(entrances[i].width)

\* C20: when the bounding boxes of all enabled zones and of all edges are on
\* the 100 mm grid, they are on it again after every pointer event, that
\* is after every create, body drag, quick move, move in moving mode and
\* handle resize.
BoxOnGrid(box) ==
    /\ box.x1 % ZoneGrid = 0 /\ box.y1 % ZoneGrid = 0
    /\ box.x2 % ZoneGrid = 0 /\ box.y2 % ZoneGrid = 0

OnGrid(zs, es) ==
    /\ \A i \in 1..ZoneSlots : zs[i].enabled => BoxOnGrid(zs[i])
    /\ \A i \in 1..Len(es) : BoxOnGrid(es[i])

PointerEvents == {"handleMouseDown", "handleMouseMove", "handleMouseUp", "handleDoubleClick"}

C20_GridKept ==
    [][(OnGrid(zones, edges) /\ op'.name \in PointerEvents) => OnGrid(zones', edges')]_vars

\* C21: in every reachable state (all pointer events are located inside the
\* canvas) every coordinate of every enabled zone and of every edge lies in
\* X in [-3000, 3000] and Y in [0, 6000], and so does the position of every
\* entrance, after any sequence of draw, placement, move and resize
\* operations.
InRangeX(x) == X_MIN <= x /\ x <= X_MAX
InRangeY(y) == Y_MIN <= y /\ y <= Y_MAX
BoxInRange(box) ==
    /\ InRangeX(box.x1) /\ InRangeX(box.x2)
    /\ InRangeY(box.y1) /\ InRangeY(box.y2)

C21_SensorBounds ==
    /\ \A i \in 1..ZoneSlots :
           zones[i].enabled
               => /\ BoxInRange(zones[i])
                  /\ \A k \in 1..Len(zones[i].vertices) :
                         /\ InRangeX(zones[i].vertices[k][1])
                         /\ InRangeY(zones[i].vertices[k][2])
    /\ \A i \in 1..Len(edges) : BoxInRange(edges[i])
    /\ \A i \in 1..Len(entrances) :
           InRangeX(entrances[i].x) /\ InRangeY(entrances[i].y)

\* A zone that follows the pointer to a corner of the canvas, in a drag or
\* in moving mode, and stops at the border of the sensor range.
C21_StoppedAtBorder ==
    /\ op.name = "handleMouseMove" /\ (isDragging \/ isMoving)
    /\ currentPoint = <<X_MIN, Y_MAX>>
    /\ \E i \in 1..ZoneSlots :
           /\ zones[i].enabled /\ zones[i].x1 = X_MIN /\ zones[i].y2 = Y_MAX
           /\ Width(zones[i]) > 0

\* C22: while a shape of any kind (zone, furniture, entrance or edge) is
\* being moved after the move command, every pointer-move puts it at the
\* grid-snapped, range-clamped pointer position and emits no update event;
\* the next left click or done command ends moving, emits exactly one
\* update event, for that shape, and reports mode select.
UpdateEvents == {"onZoneUpdate", "onFurnitureUpdate", "onEntranceUpdate", "onEdgeUpdate"}

UpdateOf(kind) ==
    CASE kind = "zone" -> "onZoneUpdate"
      [] kind = "furniture" -> "onFurnitureUpdate"
      [] kind = "entrance" -> "onEntranceUpdate"
      [] kind = "edge" -> "onEdgeUpdate"

MovingShapeExists ==
    /\ isMoving /\ movingItemType \in SelectionKinds
    /\ CASE movingItemType = "zone" ->
                Defined(zones, movingItemIndex) /\ At(zones, movingItemIndex).enabled
         [] movingItemType = "furniture" -> Defined(furniture, movingItemIndex)
         [] movingItemType = "entrance" -> Defined(entrances, movingItemIndex)
         [] movingItemType = "edge" -> Defined(edges, movingItemIndex)

\* The box keeps its size and is centred on the snapped pointer p, pushed
\* back into the sensor range.
BoxFollows(old, new, p) ==
    /\ Width(new) = Width(old) /\ Height(new) = Height(old)
    /\ 2 * new.x1 = Clamp(2 * X_MIN, 2 * (X_MAX - Width(old)),
                          2 * Snap(p[1], ZoneGrid) - Width(old))
    /\ 2 * new.y1 = Clamp(2 * Y_MIN, 2 * (Y_MAX - Height(old)),
                          2 * Snap(p[2], ZoneGrid) - Height(old))

FollowsPointer(p) ==
    LET i == movingItemIndex
    IN CASE movingItemType = "zone" -> BoxFollows(At(zones, i), At(zones', i), p)
         [] movingItemType = "edge" -> BoxFollows(At(edges, i), At(edges', i), p)
         [] movingItemType = "furniture" ->
                LET f == At(furniture', i)
                IN /\ 2 * f.x = Clamp(2 * X_MIN + f.width, 2 * X_MAX - f.width,
                                      2 * Snap(p[1], AnnotationGrid))
                   /\ 2 * f.y = Clamp(2 * Y_MIN + f.height, 2 * Y_MAX - f.height,
                                      2 * Snap(p[2], AnnotationGrid))
         [] movingItemType = "entrance" ->
                LET e == At(entrances', i)
                IN /\ e.x = Clamp(X_MIN, X_MAX, Snap(p[1], AnnotationGrid))
                   /\ e.y = Clamp(Y_MIN, Y_MAX, Snap(p[2], AnnotationGrid))

C22_MoveMode ==
    [][MovingShapeExists
           => /\ \A c \in Pixels :
                     MouseMove(c)
                         => /\ FollowsPointer(toSensorCoords(c, mapRotation))
                            /\ \A k \in 1..Len(events') : events'[k][1] \notin UpdateEvents
              /\ ((\E c \in Pixels : MouseDown(c, 0)) \/ FinishPlacement)
                     => /\ ~isMoving'
                        /\ Cardinality({k \in 1..Len(events') :
                                            events'[k][1] \in UpdateEvents}) = 1
                        /\ Emitted(events', UpdateOf(movingItemType), movingItemIndex)
                        /\ Emitted(events', "onModeChange", "select")]_vars

\* C23: a left click in place-furniture mode with a furniture type chosen,
\* or in place-entrance mode, appends exactly one shape, at the grid-snapped
\* pointer location, to the furniture or to the entrances, leaves all
\* existing shapes as they were, and the mode is select afterwards in both
\* cases.
Placing == (mode = "place-furniture" /\ placingFurniture # "") \/ mode = "place-entrance"

AppendedAt(old, new, p) ==
    /\ Len(new) = Len(old) + 1
    /\ SubSeq(new, 1, Len(old)) = old
    /\ new[Len(new)].x = Snap(p[1], ZoneGrid)
    /\ new[Len(new)].y = Snap(p[2], ZoneGrid)

C24_EarlyDoubleClickRejected ==
    [][(mode = "draw-polygon" /\ Len(polygonVertices) < 3 /\ DoubleClick)
           => /\ Times(events', "onError") = 1
              /\ Emitted(events', "onError", MsgPolygonVertices)
              /\ zones' = zones
              /\ polygonVertices' = <<>>]_vars

\* C25: in draw-edge mode the release that ends a press-drag-release
\* appends exactly one normalized edge with the snapped corners and returns
\* to select when both snapped dimensions are at least 100 mm, however many
\* edges there are; otherwise no edge is added, the gesture is discarded
\* and the rejection is reported once via onError.
EdgeBigEnough(a, b) == Abs(b[1] - a[1]) >= MinEdgeSize /\ Abs(b[2] - a[2]) >= MinEdgeSize

C25_EdgeGesture ==
    [][\A c \in SnapPixels \cup Pixels :
           (/\ mode = "draw-edge" /\ isDrawing
            /\ startPoint # NoPoint /\ currentPoint # NoPoint
            /\ MouseUp(c, 0))
               => LET a == SnappedPoint(startPoint)
                      b == SnappedPoint(currentPoint)
                  IN IF EdgeBigEnough(a, b)
                     THEN /\ edges' = Append(edges,
                                         [x1 |-> Min(a[1], b[1]), y1 |-> Min(a[2], b[2]),
                                          x2 |-> Max(a[1], b[1]), y2 |-> Max(a[2], b[2])])
                          /\ mode' = "select" /\ ~isDrawing'
                     ELSE /\ edges' = edges
                          /\ ~isDrawing' /\ startPoint' = NoPoint
                          /\ Times(events', "onError") = 1]_vars

\* C26: a left pointer-down in select mode with nothing selected selects,
\* among the shapes of one kind that contain the pointer, the one with the
\* highest index; this holds for zones as for furniture, entrances and
\* edges.
NothingSelected == SelectedKinds = {}

ZoneHits(p) == {i \in 0..(ZoneSlots - 1) : isPointInZone(p, At(zones, i))}
FurnitureHits(p) == {i \in 0..(Len(furniture) - 1) : isPointInFurniture(p, At(furniture, i))}
EntranceHits(p) == {i \in 0..(Len(entrances) - 1) : isPointInEntrance(p, At(entrances, i))}
EdgeHits(p) == {i \in 0..(Len(edges) - 1) : isPointInEdge(p, At(edges, i))}

IsTopmost(i, hits) == i \in hits /\ \A j \in hits : j <= i

C26_TopmostSelected ==
    [][\A c \in Pixels :
           (mode = "select" /\ ~isMoving /\ NothingSelected /\ MouseDown(c, 0))
               => LET p == toSensorCoords(c, mapRotation)
                  IN /\ selectedZoneIndex' # NullIndex
                            => IsTopmost(selectedZoneIndex', ZoneHits(p))
                     /\ selectedFurnitureIndex' # NullIndex
                            => IsTopmost(selectedFurnitureIndex', FurnitureHits(p))
                     /\ selectedEntranceIndex' # NullIndex
                            => IsTopmost(selectedEntranceIndex', EntranceHits(p))
                     /\ selectedEdgeIndex' # NullIndex
                            => IsTopmost(selectedEdgeIndex', EdgeHits(p))]_vars

\* C27: a left pointer-down in select mode with nothing selected selects
\* exactly one shape when the pointer is inside a shape, of the first kind
\* in the order entrance, furniture, zone, edge that has a shape under the
\* pointer, and leaves all four selection indices null when the pointer is
\* on empty space.
KindAt(p) ==
    IF EntranceHits(p) # {} THEN "entrance"
    ELSE IF FurnitureHits(p) # {} THEN "furniture"
    ELSE IF ZoneHits(p) # {} THEN "zone"
    ELSE IF EdgeHits(p) # {} THEN "edge"
    ELSE ""

C27_SelectionPrecedence ==
    [][\A c \in Pixels :
           (mode = "select" /\ ~isMoving /\ NothingSelected /\ MouseDown(c, 0))
               => LET kind == KindAt(toSensorCoords(c, mapRotation))
                  IN /\ (selectedEntranceIndex' # NullIndex) = (kind = "entrance")
                     /\ (selectedFurnitureIndex' # NullIndex) = (kind = "furniture")
                     /\ (selectedZoneIndex' # NullIndex) = (kind = "zone")
                     /\ (selectedEdgeIndex' # NullIndex) = (kind = "edge")]_vars

\* An entrance selected by a pointer-down at a point that also lies inside
\* a furniture item and inside a zone.
C27_EntranceOverFurnitureOverZone ==
    /\ op = [name |-> "handleMouseDown", arg |-> "left"]
    /\ Times(events, "onEntranceSelect") = 1
    /\ selectedEntranceIndex # NullIndex
    /\ \E c \in Pixels :
           LET p == toSensorCoords(c, mapRotation)
           IN /\ selectedEntranceIndex \in EntranceHits(p)
              /\ FurnitureHits(p) # {} /\ ZoneHits(p) # {}

\* C28: a pointer-move during a handle resize of a zone or an edge changes
\* only the bounding-box fields named by the active handle: one field for
\* a midpoint handle (n: y2, s: y1, e: x2, w: x1), one x-field and one
\* y-field for a corner handle (nw: x1 y2, ne: x2 y2, sw: x1 y1, se: x2 y1);
\* the other fields of the shape, all other shapes and the selection are
\* unchanged, and the eight handles of a box have eight distinct types.
BoxFields == {"x1", "y1", "x2", "y2"}

FieldsOf(type) ==
    CASE type = "n" -> {"y2"}
      [] type = "s" -> {"y1"}
      [] type = "e" -> {"x2"}
      [] type = "w" -> {"x1"}
      [] type = "nw" -> {"x1", "y2"}
      [] type = "ne" -> {"x2", "y2"}
      [] type = "sw" -> {"x1", "y1"}
      [] type = "se" -> {"x2", "y1"}

NamedFields(handle) == {handle.updateX, handle.updateY} \ {""}

\* new is old except for the fields of named.
ChangedWithin(old, new, named) ==
    [f \in DOMAIN old |-> IF f \in named THEN old[f] ELSE new[f]] = old

SelectionUnchangedByResize ==
    /\ selectedZoneIndex' = selectedZoneIndex
    /\ selectedFurnitureIndex' = selectedFurnitureIndex
    /\ selectedEntranceIndex' = selectedEntranceIndex
    /\ selectedEdgeIndex' = selectedEdgeIndex
    /\ selectedHandle' = selectedHandle

Resizing(kind) ==
    /\ mode = "select" /\ ~isMoving /\ isDragging
    /\ selectedHandle # NoHandle /\ selectedHandle.itemType = kind

C28_ResizeFrame ==
    [][/\ selectedHandle' # NoHandle
            => /\ NamedFields(selectedHandle') = FieldsOf(selectedHandle'.type)
               /\ LET hs == BoxHandles([x1 |-> 0, y1 |-> 0, x2 |-> 0, y2 |-> 0])
                  IN \A i, j \in 1..8 :
                         i # j => /\ hs[i].type # hs[j].type
                                  /\ NamedFields(hs[i]) # NamedFields(hs[j])
       /\ \A c \in FramePixels :
              /\ (Resizing("zone") /\ Defined(zones, selectedZoneIndex) /\ MouseMove(c))
                     => /\ ChangedWithin(At(zones, selectedZoneIndex),
                                         At(zones', selectedZoneIndex),
                                         NamedFields(selectedHandle))
                        /\ \A i \in 0..(ZoneSlots - 1) :
                               i # selectedZoneIndex => At(zones', i) = At(zones, i)
                        /\ furniture' = furniture /\ entrances' = entrances
                        /\ edges' = edges /\ SelectionUnchangedByResize
              /\ (Resizing("edge") /\ Defined(edges, selectedEdgeIndex) /\ MouseMove(c))
                     => /\ Len(edges') = Len(edges)
                        /\ ChangedWithin(At(edges, selectedEdgeIndex),
                                         At(edges', selectedEdgeIndex),
                                         NamedFields(selectedHandle))
                        /\ \A i \in 0..(Len(edges) - 1) :
                               i # selectedEdgeIndex => At(edges', i) = At(edges, i)
                        /\ furniture' = furniture /\ entrances' = entrances
                        /\ zones' = zones /\ SelectionUnchangedByResize]_vars

\* The north midpoint handle of the first zone dragged outwards: only y2
\* has changed.
C28_NorthHandleDragged ==
    /\ op.name = "handleMouseMove" /\ isDragging
    /\ selectedHandle.type = "n" /\ selectedHandle.itemType = "zone"
    /\ selectedZoneIndex = 0
    /\ zones[1].x1 = -500 /\ zones[1].y1 = 1500 /\ zones[1].x2 = 500
    /\ zones[1].y2 = 3000

\* C29: a left pointer-down on the body of the selected shape starts a drag
\* with the offset pointer minus shape centre; every pointer-move of the
\* drag keeps the offset, puts the shape at the snapped, clamped position
\* pointer minus offset and emits an update event that carries the shape's
\* new geometry, so that the final geometry has been reported when the
\* pointer-up ends the gesture with isDragging false and no selected handle.
\* (dragOffset holds twice the offset.)
OneSelected(kind) == SelectedKinds = {kind} /\ mode = "select" /\ ~isMoving

\* The selected shape, its body under the pointer p, and the offset of p
\* from its centre, doubled.
SelectedShape(kind) ==
    CASE kind = "zone" -> At(zones, selectedZoneIndex)
      [] kind = "furniture" -> At(furniture, selectedFurnitureIndex)
      [] kind = "entrance" -> At(entrances, selectedEntranceIndex)
      [] kind = "edge" -> At(edges, selectedEdgeIndex)

SelectedExists(kind) ==
    CASE kind = "zone" -> Defined(zones, selectedZoneIndex)
                              /\ At(zones, selectedZoneIndex).enabled
      [] kind = "furniture" -> Defined(furniture, selectedFurnitureIndex)
      [] kind = "entrance" -> Defined(entrances, selectedEntranceIndex)
      [] kind = "edge" -> Defined(edges, selectedEdgeIndex)

OnBody(kind, p) ==
    CASE kind = "zone" -> isPointInZone(p, SelectedShape(kind))
      [] kind = "furniture" -> isPointInFurniture(p, SelectedShape(kind))
      [] kind = "entrance" -> isPointInEntrance(p, SelectedShape(kind))
      [] kind = "edge" -> isPointInEdge(p, SelectedShape(kind))

OnHandle(kind, c) ==
    CASE kind = "zone" ->
             getHandleAtPoint(c, SelectedShape(kind), selectedZoneIndex, mapRotation) # NoHandle
      [] kind = "furniture" ->
             getFurnitureHandleAtPoint(c, furniture, selectedFurnitureIndex, mapRotation) # NoHandle
      [] kind = "entrance" -> FALSE
      [] kind = "edge" ->
             getEdgeHandleAtPoint(c, edges, selectedEdgeIndex, mapRotation) # NoHandle

OffsetFromCentre(kind, p) ==
    LET sh == SelectedShape(kind)
    IN IF kind \in {"zone", "edge"}
       THEN <<2 * p[1] - (sh.x1 + sh.x2), 2 * p[2] - (sh.y1 + sh.y2)>>
       ELSE <<2 * (p[1] - sh.x), 2 * (p[2] - sh.y)>>

\* The box keeps its size and follows pointer minus offset on the 100 mm
\* grid, inside the sensor range; a furniture item and an entrance follow
\* on the 50 mm grid, the furniture item staying inside the range with its
\* whole extent.
BoxDragged(old, new, p) ==
    LET w == Abs(old.x2 - old.x1)
        h == Abs(old.y2 - old.y1)
    IN /\ new.x2 - new.x1 = w /\ new.y2 - new.y1 = h
       /\ new.x1 = Clamp(X_MIN, X_MAX - w, SnapHalf(2 * p[1] - dragOffset[1] - w, ZoneGrid))
       /\ new.y1 = Clamp(Y_MIN, Y_MAX - h, SnapHalf(2 * p[2] - dragOffset[2] - h, ZoneGrid))

Dragged(kind, p) ==
    CASE kind = "zone" ->
             BoxDragged(At(zones, selectedZoneIndex), At(zones', selectedZoneIndex), p)
      [] kind = "edge" ->
             BoxDragged(At(edges, selectedEdgeIndex), At(edges', selectedEdgeIndex), p)
      [] kind = "furniture" ->
             LET f == At(furniture', selectedFurnitureIndex)
             IN /\ 2 * f.x = Clamp(2 * X_MIN + f.width, 2 * X_MAX - f.width,
                                   2 * SnapHalf(2 * p[1] - dragOffset[1], AnnotationGrid))
                /\ 2 * f.y = Clamp(2 * Y_MIN + f.height, 2 * Y_MAX - f.height,
                                   2 * SnapHalf(2 * p[2] - dragOffset[2], AnnotationGrid))
      [] kind = "entrance" ->
             LET e == At(entrances', selectedEntranceIndex)
             IN /\ e.x = Clamp(X_MIN, X_MAX, SnapHalf(2 * p[1] - dragOffset[1], AnnotationGrid))
                /\ e.y = Clamp(Y_MIN, Y_MAX, SnapHalf(2 * p[2] - dragOffset[2], AnnotationGrid))

ListOf(kind) ==
    CASE kind = "zone" -> zones'
      [] kind = "furniture" -> furniture'
      [] kind = "entrance" -> entrances'
      [] kind = "edge" -> edges'

UpdateReported(kind) ==
    \E k \in 1..Len(events') :
        /\ events'[k][1] = UpdateOf(kind)
        /\ events'[k][2] = SelectionOf(kind)
        /\ events'[k][3] = ListOf(kind)

BodyDragging(kind) ==
    /\ OneSelected(kind) /\ SelectedExists(kind)
    /\ isDragging /\ selectedHandle = NoHandle

C29_BodyDrag ==
    [][\A kind \in SelectionKinds, c \in DragPixels :
           LET p == toSensorCoords(c, mapRotation)
           IN /\ (/\ OneSelected(kind) /\ SelectedExists(kind) /\ ~isDragging
                  /\ OnBody(kind, p) /\ ~OnHandle(kind, c) /\ MouseDown(c, 0))
                     => /\ isDragging' /\ selectedHandle' = NoHandle
                        /\ dragOffset' = OffsetFromCentre(kind, p)
              /\ (BodyDragging(kind) /\ MouseMove(c))
                     => /\ dragOffset' = dragOffset /\ isDragging'
                        /\ Dragged(kind, p)
                        /\ UpdateReported(kind)
              /\ (BodyDragging(kind) /\ MouseUp(c, 0))
                     => /\ ~isDragging' /\ selectedHandle' = NoHandle
                        /\ ShapesUnchanged]_vars

\* C30: a right pointer-down on the body of the selected shape starts a drag
\* with the offset pointer minus shape centre and changes nothing else;
\* every pointer-move of that drag moves the shapes as the same drag without
\* the right-button flag would, which for a shape whose size is a multiple
\* of the grid is the snapped, clamped position pointer minus offset with
\* the size kept (moveZone snaps the two corners of a zone separately, so
\* a zone of another size changes its size by up to one grid step under
\* either button); a right release ends it with isDragging and
\* isRightClickDragging false; a right pointer-down that is not on the body
\* of a selected shape starts no drag and changes neither the selection nor
\* any shape.
OnSelectedBody(p) ==
    \E kind \in SelectedKinds : SelectedExists(kind) /\ OnBody(kind, p)

GridSized(kind) ==
    kind = "zone" =>
        LET b == getZoneCorners(At(zones, selectedZoneIndex))
        IN (b.x2 - b.x1) % ZoneGrid = 0 /\ (b.y2 - b.y1) % ZoneGrid = 0

DragFlagsUnchanged ==
    /\ isDragging' = isDragging /\ isRightClickDragging' = isRightClickDragging
    /\ dragOffset' = dragOffset

MovesLikeLeftDrag(c) ==
    LET t == handleMouseMove([St EXCEPT !.isRightClickDragging = FALSE], c)
    IN /\ zones' = t.zones /\ furniture' = t.furniture
       /\ entrances' = t.entrances /\ edges' = t.edges
       /\ dragOffset' = t.dragOffset /\ isDragging' = t.isDragging

C30_RightDrag ==
    [][\A c \in DragPixels :
           LET p == toSensorCoords(c, mapRotation)
           IN /\ \A kind \in SelectionKinds :
                     /\ (/\ OneSelected(kind) /\ SelectedExists(kind) /\ ~isDragging
                         /\ OnBody(kind, p) /\ MouseDown(c, 2))
                            => /\ isDragging' /\ isRightClickDragging'
                               /\ dragOffset' = OffsetFromCentre(kind, p)
                               /\ ShapesUnchanged /\ SelectionUnchangedByResize
                     /\ (BodyDragging(kind) /\ isRightClickDragging /\ MouseMove(c))
                            => /\ GridSized(kind) => Dragged(kind, p)
                               /\ isDragging' /\ isRightClickDragging'
              /\ (isRightClickDragging /\ isDragging /\ MouseMove(c))
                     => MovesLikeLeftDrag(c)
              /\ (isRightClickDragging /\ MouseUp(c, 2))
                     => /\ ~isDragging' /\ ~isRightClickDragging'
                        /\ ShapesUnchanged /\ SelectionUnchangedByResize
              /\ (~OnSelectedBody(p) /\ MouseDown(c, 2))
                     => /\ DragFlagsUnchanged /\ ShapesUnchanged
                        /\ SelectionUnchangedByResize]_vars

\* The selected chair dragged with the right button from its centre to the
\* left border of the sensor range.
C30_ChairQuickMoved ==
    /\ op.name = "handleMouseMove" /\ isDragging /\ isRightClickDragging
    /\ selectedHandle = NoHandle /\ selectedFurnitureIndex = 0
    /\ dragOffset = <<0, 0>>
    /\ 2 * furniture[1].x = 2 * X_MIN + furniture[1].width

\* C31: the position at which a live target is drawn (transformSensorToRoom
\* followed by toCanvasX and toCanvasY) is the position that the rotation of
\* the canvas context, as toCanvasCoords computes it, gives for the same
\* sensor point, at every map rotation.
C31_RotationsCoincide ==
    op.name = "drawTarget" => currentPoint = toCanvasCoords(startPoint, mapRotation)

\* C32: a rotate invocation on a selected furniture item or entrance sets
\* its rotation or direction to the old value plus 45 modulo 360 and changes
\* no other field, no other shape and no selection; every rotation and
\* direction is one of 0, 45, ..., 315, a value that eight such steps
\* restore.
Turn(v) == (v + RotateStep) % 360

RECURSIVE TurnTimes(_, _)
TurnTimes(v, n) == IF n = 0 THEN v ELSE TurnTimes(Turn(v), n - 1)

Angles == {k * RotateStep : k \in 0..7}

IsAngle(v) == v \in Angles /\ TurnTimes(v, 8) = v /\ \A n \in 1..7 : TurnTimes(v, n) # v

AllAngles(fs, es) ==
    /\ \A k \in 1..Len(fs) : IsAngle(fs[k].rotation)
    /\ \A k \in 1..Len(es) : IsAngle(es[k].direction)

C32_RotateStep ==
    [][/\ AllAngles(furniture, entrances) /\ AllAngles(furniture', entrances')
       /\ (/\ RotateSelectedShape /\ selectedItemIndex # NullIndex
           /\ selectedItemType = "furniture" /\ Defined(furniture, selectedItemIndex))
              => /\ furniture' = [furniture EXCEPT ![selectedItemIndex + 1].rotation = Turn(@)]
                 /\ entrances' = entrances /\ zones' = zones /\ edges' = edges
                 /\ SelectionUnchangedByResize
       /\ (/\ RotateSelectedShape /\ selectedItemIndex # NullIndex
           /\ selectedItemType = "entrance" /\ Defined(entrances, selectedItemIndex))
              => /\ entrances' = [entrances EXCEPT ![selectedItemIndex + 1].direction = Turn(@)]
                 /\ furniture' = furniture /\ zones' = zones /\ edges' = edges
                 /\ SelectionUnchangedByResize]_vars

\* The stored chair selected and turned eight times, back at its stored
\* rotation.
C32_ChairTurnedFullCircle ==
    /\ op.name = "rotateSelectedShape" /\ steps = 9
    /\ selectedItemType = "furniture" /\ selectedItemIndex = 0
    /\ Len(furniture) = 1 /\ furniture[1].rotation = 0

\* C33: a double-click in draw-polygon mode after at least two vertices,
\* with a zone slot free, closes the polygon: the mode is select again, no
\* vertex is pending, and the zone committed into the selected slot is an
\* enabled polygon whose vertex list has no two consecutive equal vertices
\* and holds the double-click location at most once.
NoRepeat(vs) == \A k \in 1..(Len(vs) - 1) : vs[k] # vs[k + 1]

Occurrences(vs, v) == Cardinality({k \in 1..Len(vs) : vs[k] = v})

C33_DoubleClickCloses ==
    [][\A c \in PolygonPixels :
           (/\ mode = "draw-polygon" /\ Len(polygonVertices) >= 2
            /\ getNextAvailableZoneSlot(zones) # -1 /\ DoubleClickAt(c))
               => LET p == toSensorCoords(c, mapRotation)
                      point == <<Snap(p[1], ZoneGrid), Snap(p[2], ZoneGrid)>>
                      zone == At(zones', selectedZoneIndex')
                  IN /\ mode' = "select" /\ polygonVertices' = <<>>
                     /\ selectedZoneIndex' = getNextAvailableZoneSlot(zones)
                     /\ zone.enabled /\ zone.shapeType = "polygon"
                     /\ NoRepeat(zone.vertices)
                     /\ Occurrences(zone.vertices, point) <= 1]_vars

\* C34: a left pointer-down in select mode that starts a drag or a resize
\* was made on the body of a shape or on a handle of a selected shape, and
\* a pointer-move of that gesture, wherever it goes, changes none but the
\* shapes that were under the pointer at the pointer-down.
ShapesUnder(c) ==
    LET p == toSensorCoords(c, mapRotation)
    IN {<<"zone", i>> : i \in ZoneHits(p)}
       \cup {<<"furniture", i>> : i \in FurnitureHits(p)}
       \cup {<<"entrance", i>> : i \in EntranceHits(p)}
       \cup {<<"edge", i>> : i \in EdgeHits(p)}
       \cup {<<kind, SelectionOf(kind)>> : kind \in {k \in SelectedKinds : OnHandle(k, c)}}

Differing(old, new, kind) ==
    IF Len(old) # Len(new) THEN {<<kind, i>> : i \in 0..(Max(Len(old), Len(new)) - 1)}
    ELSE {<<kind, i>> : i \in {j \in 0..(Len(old) - 1) : At(old, j) # At(new, j)}}

ChangedShapes(a, b) ==
    Differing(a.zones, b.zones, "zone") \cup Differing(a.furniture, b.furniture, "furniture")
    \cup Differing(a.entrances, b.entrances, "entrance")
    \cup Differing(a.edges, b.edges, "edge")

C34_GestureFrame ==
    [][\A c \in BoundsPixels :
           (/\ mode = "select" /\ ~isMoving /\ ~isDragging
            /\ MouseDown(c, 0) /\ isDragging')
               => /\ ShapesUnder(c) # {} /\ ShapesUnchanged
                  /\ \A to \in BoundsPixels :
                         ChangedShapes(St', handleMouseMove(St', to)) \subseteq ShapesUnder(c)]_vars

\* C35: while the move mode is active a pointer-move changes no shape but
\* the one the move command was issued on; a key handled meanwhile that
\* deletes that shape leaves a state in which no pointer-move changes any
\* shape, and a key that does not delete it leaves the move mode on the
\* same shape.
MovingList(s) ==
    CASE s.movingItemType = "zone" -> s.zones
      [] s.movingItemType = "furniture" -> s.furniture
      [] s.movingItemType = "entrance" -> s.entrances
      [] OTHER -> s.edges

MovingExists(s) ==
    /\ Defined(MovingList(s), s.movingItemIndex)
    /\ s.movingItemType = "zone" => At(s.zones, s.movingItemIndex).enabled

MovingDeleted ==
    /\ MovingExists(St)
    /\ \/ Len(MovingList(St')) < Len(MovingList(St))
       \/ movingItemType = "zone" /\ ~At(zones', movingItemIndex).enabled

C35_MovingFrame ==
    [][/\ \A c \in Pixels :
              (isMoving /\ MouseMove(c))
                  => ChangedShapes(St, St') \subseteq {<<movingItemType, movingItemIndex>>}
       /\ \A key \in Keys :
              (isMoving /\ MovingExists(St) /\ KeyDown(key) /\ isMoving')
                  => IF MovingDeleted
                     THEN \A c \in Pixels :
                              ChangedShapes(St', handleMouseMove(St', c)) = {}
                     ELSE /\ movingItemType' = movingItemType
                          /\ MovingExists(St')
                          /\ At(MovingList(St'), movingItemIndex')
                                 = At(MovingList(St), movingItemIndex)]_vars

\* C36: a pointer-down on a corner handle of the selected furniture item
\* followed by a pointer-move to exactly that handle's position leaves the
\* item's width and height as they were, at every rotation of the item that
\* is a multiple of 45 degrees and every map rotation, for widths and
\* heights that are multiples of 50 mm.
C36_CornerKeepsSize ==
    [][\A type \in CornerTypes :
           LET f == At(furniture, selectedFurnitureIndex)
               g == At(furniture', selectedFurnitureIndex)
           IN (/\ ResizeAtCorner(type)
               /\ f.width % AnnotationGrid = 0 /\ f.height % AnnotationGrid = 0
               /\ f.rotation % RotateStep = 0)
                  => g.width = f.width /\ g.height = f.height]_vars


\* C37: in every reachable state isDrawing is true only while the mode is
\* draw-rectangle or draw-edge and polygonVertices is non-empty only while
\* the mode is draw-polygon; a mode change through setMode (a toolbar
\* button, the Escape key) clears isDrawing, isDragging, isMoving, the start
\* point, the polygon vertices, the previews and the selected handle and
\* leaves the four selection indices and all shapes unchanged.
GestureMatchesMode(s) ==
    /\ s.isDrawing => s.mode \in {"draw-rectangle", "draw-edge"}
    /\ s.polygonVertices # <<>> => s.mode = "draw-polygon"

GestureCleared(s) ==
    /\ ~s.isDrawing /\ ~s.isDragging /\ ~s.isMoving
    /\ s.startPoint = NoPoint /\ s.polygonVertices = <<>>
    /\ s.previewRect = <<>> /\ s.previewPolygon = <<>>
    /\ s.drawingPreview = <<>> /\ s.selectedHandle = NoHandle

ModeChanged ==
    \/ \E m \in ToolModes \ {"place-furniture"} : ToolButtonClick(m, "")
    \/ \E f \in FurnitureTypes : ToolButtonClick("place-furniture", f)
    \/ KeyDown("Escape")

C37_GestureFollowsMode ==
    [][/\ GestureMatchesMode(St) /\ GestureMatchesMode(St')
       /\ ModeChanged => /\ GestureCleared(St')
                         /\ selectedZoneIndex' = selectedZoneIndex
                         /\ selectedFurnitureIndex' = selectedFurnitureIndex
                         /\ selectedEntranceIndex' = selectedEntranceIndex
                         /\ selectedEdgeIndex' = selectedEdgeIndex
                         /\ ShapesUnchanged]_vars

\* A toolbar button was pressed while the right button held a selected
\* shape: the drag is over, the shape is still selected.
C37_ToolPickedDuringDrag ==
    /\ op.name = "toolButtonClick" /\ mode = "draw-polygon"
    /\ isRightClickDragging /\ ~isDragging
    /\ selectedFurnitureIndex # NullIndex


\* C38: under pointer, keyboard, toolbar and move-command operations, whenever
\* selectedZoneIndex is non-null the zone at that index is enabled; a slot
\* that is disabled before and after a step is left as it was (never
\* dragged or resized), and a step that disables a zone (deleting the
\* selected zone) leaves selectedZoneIndex null.
SelectedZoneEnabled(s) ==
    s.selectedZoneIndex # NullIndex => At(s.zones, s.selectedZoneIndex).enabled

C38_SelectedZoneEnabled ==
    [][/\ SelectedZoneEnabled(St) /\ SelectedZoneEnabled(St')
       /\ \A i \in 1..Len(zones) :
              /\ (~zones[i].enabled /\ ~zones'[i].enabled) => zones'[i] = zones[i]
              /\ (zones[i].enabled /\ ~zones'[i].enabled)
                     => /\ selectedZoneIndex = i - 1
                        /\ selectedZoneIndex' = NullIndex]_vars

\* The selected zone was deleted with the Delete key: it is disabled and
\* nothing is selected, while another zone is still enabled.
C38_SelectedZoneDeleted ==
    /\ op = [name |-> "handleKeyDown", arg |-> "Delete"]
    /\ selectedZoneIndex = NullIndex
    /\ ~At(zones, 0).enabled /\ At(zones, 1).enabled


\* C39: deleting a zone resets only enabled, shapeType and vertices and
\* keeps the slot's zoneType and bounding box; a zone drawn into a free slot
\* takes the slot's zoneType, and 'detection' only if that was unset.
ZoneCreatedIn(index) ==
    \E k \in 1..Len(events) : events[k][1] = "onZoneCreated" /\ events[k][2] = index

C39_ZoneTypeRetained ==
    [][\A i \in 1..Len(zones) :
           /\ (zones[i].enabled /\ ~zones'[i].enabled /\ KeyDown("Delete"))
                  => zones'[i] = [zones[i] EXCEPT !.enabled = FALSE,
                                                  !.shapeType = "rectangle",
                                                  !.vertices = <<>>]
           /\ (~zones[i].enabled /\ zones'[i].enabled)
                  => zones'[i].zoneType = IF zones[i].zoneType = "" THEN "detection"
                                          ELSE zones[i].zoneType]_vars

\* The first zone of the room was made an interference zone and deleted,
\* and a polygon drawn into its slot is an interference zone.
C39_InterferenceRedrawn ==
    /\ ZoneCreatedIn(0)
    /\ At(zones, 0).enabled /\ At(zones, 0).shapeType = "polygon"
    /\ At(zones, 0).zoneType = "interference"

====
